---- MODULE Spec2Model ----
(***************************************************************************)
(* Model of the task-management REST backend: the users and tasks tables   *)
(* (Prisma over MySQL), the attachment storage, the JWT guards and the     *)
(* auth, users, profile and tasks services.  Every request is a process    *)
(* that takes one step per database access (each `await this.prisma...`),  *)
(* so that concurrent requests interleave exactly where the code yields.   *)
(***************************************************************************)
EXTENDS Integers, Sequences, FiniteSets, TLC

\* ------------------------------------------------------------------ values

\* SQL NULL / JavaScript null, and JavaScript undefined (a DTO field that was
\* not supplied).  The two are different values: null === undefined is false.
NULL == "null"
UNDEF == "undefined"

Procs == {1, 2}

\* Values requests are drawn from.
Usernames == {"u1", "u2", "u3"}
Emails == {"e1"}
Phones == {"p1", "p2"}

\* enum UserRole { Admin User }
UserRole == {"Admin", "User"}

\* Accounts ever inserted (AUTO_INCREMENT ids 1..MaxUserId).
MaxUserId == 2

\* Files ever uploaded.
MaxFileId == 2

\* Tasks ever inserted (AUTO_INCREMENT ids 1..MaxTaskId).
MaxTaskId == 2

\* ------------------------------------------------------------------ strings

\* JavaScript strings the code searches in, as sequences of characters.
users_email_key ==
    <<"u","s","e","r","s","_","e","m","a","i","l","_","k","e","y">>
users_phone_number_key ==
    <<"u","s","e","r","s","_","p","h","o","n","e","_","n","u","m","b","e","r",
      "_","k","e","y">>
users_username_key ==
    <<"u","s","e","r","s","_","u","s","e","r","n","a","m","e","_","k","e","y">>

str_email == <<"e","m","a","i","l">>
str_username == <<"u","s","e","r","n","a","m","e">>
str_phoneNumber == <<"p","h","o","n","e","N","u","m","b","e","r">>

\* String.prototype.includes
Includes(hay, needle) ==
    \E i \in 1..(Len(hay) - Len(needle) + 1) :
        SubSeq(hay, i, i + Len(needle) - 1) = needle

\* ------------------------------------------------------------------ bcrypt

\* bcrypt.hash(password, 10): the stored value is not the password.
\* bcrypt.compare(password, hash) recomputes it.
BcryptHash(password) == <<"$2b$10$", password>>

\* A comparison of the password with the stored value itself.
PlainCompare(password, hash) == hash = password

BcryptCompare(password, hash) == hash = BcryptHash(password)

\* ------------------------------------------------------------------ state

VARIABLES
    users,        \* table `users`: a set of rows
    nextUserId,   \* AUTO_INCREMENT of users.id
    tasks,        \* table `tasks`: a set of rows
    nextTaskId,   \* AUTO_INCREMENT of tasks.id
    files,        \* paths that exist under ./uploads
    nextFileId,   \* stands for the uuid of the next uploaded file
    req,          \* per process: the request it is executing, or Idle; a
                  \* request keeps in `seen` the table its last uniqueness
                  \* lookup read
    resp,         \* the response the last step sent (NoResp: it sent none)
    issued,       \* what the tokens the server has signed so far say of
                  \* their holder: the id and the role at the time
    registered    \* what each successful registration asked for and stored

vars == <<users, nextUserId, tasks, nextTaskId, files, nextFileId, req, resp,
          issued, registered>>

Idle == [op |-> "idle"]

\* A response: HTTP status, message, and what the body carries.
NoMeta == [total |-> 0, page |-> 0, limit |-> 0, totalPages |-> 0]

NoResp ==
    [proc |-> 0, request |-> Idle, op |-> "none", status |-> 0,
     message |-> "", accounts |-> {}, tokens |-> {}, tasks |-> {},
     path |-> NULL, meta |-> NoMeta]

Reply(op, status, message) ==
    [NoResp EXCEPT !.op = op, !.status = status, !.message = message]

\* ------------------------------------------------------------------ database

\* A supplied optional column value; an omitted one is stored as NULL.
Column(v) == IF v = UNDEF THEN NULL ELSE v

\* The unique indexes of `users`, in the order the table declares them.
UniqueIndexes == <<"email", "phoneNumber", "username">>

IndexName(f) ==
    CASE f = "email" -> users_email_key
      [] f = "phoneNumber" -> users_phone_number_key
      [] f = "username" -> users_username_key

\* TRUE when writing `row` would put a second row with the same non-NULL value
\* into unique column f (MySQL unique indexes admit any number of NULLs).
Duplicates(table, row, f) ==
    /\ row[f] # NULL
    /\ \E u \in table : u.id # row.id /\ u[f] = row[f]

\* A table without unique indexes: no write fails.
NoUniqueIndex(table, row) == "none"

\* The unique index an INSERT or UPDATE of `row` fails on, or "none".
ViolatedIndex(table, row) ==
    IF Duplicates(table, row, UniqueIndexes[1]) THEN UniqueIndexes[1]
    ELSE IF Duplicates(table, row, UniqueIndexes[2]) THEN UniqueIndexes[2]
    ELSE IF Duplicates(table, row, UniqueIndexes[3]) THEN UniqueIndexes[3]
    ELSE "none"

\* prisma.user.findFirst without orderBy: null when nothing matches, otherwise
\* whichever matching row the database happens to return first.  The result
\* is a set: empty for null, else one row.
FindFirst(matches) ==
    IF matches = {} THEN {{}} ELSE {{u} : u \in matches}

\* prisma.user.findUnique({ where: { id } }), same convention.
FindById(id) == {u \in users : u.id = id}

\* prisma.user.findUnique({ where: { username } })
FindByUsername(username) == {u \in users : u.username = username}

\* The row createTestAdmin inserts.
SeedAdmin ==
    [id |-> 1, email |-> "admin@test.com", phoneNumber |-> NULL,
     username |-> "admin", password |-> BcryptHash("AdminPassword123"),
     role |-> "Admin", profilePicture |-> NULL]

\* ------------------------------------------------------------------ responses

\* The row as the database returns it.
WithPassword(user) == user

\* const { password, ...userWithoutPassword } = user
WithoutPassword(user) == [f \in (DOMAIN user) \ {"password"} |-> user[f]]

\* AuthService.generateToken: the signed payload.
generateToken(user) ==
    [sub |-> user.id, username |-> user.username, role |-> user.role]

\* What a token says of its holder that a guard could go by.
Signed(token) == [sub |-> token.sub, role |-> token.role]

\* AuthService.buildUserResponse
buildUserResponse(op, status, user) ==
    [NoResp EXCEPT !.op = op, !.status = status,
                   !.accounts = {WithoutPassword(user)},
                   !.tokens = {generateToken(user)}]

\* Finish process p's request `call` with response r.
Answer(p, call, r) ==
    /\ req' = [req EXCEPT ![p] = Idle]
    /\ resp' = [r EXCEPT !.proc = p, !.request = call]

\* Finish the request process p is executing.
Finish(p, r) == Answer(p, req[p], r)

\* Keep process p's request running, as q: the step sends no response.
Continue(p, q) ==
    /\ req' = [req EXCEPT ![p] = q]
    /\ resp' = NoResp

\* A database that holds the seeded administrator alone.
Init ==
    /\ users = {SeedAdmin}
    /\ nextUserId = 2
    /\ tasks = {}
    /\ nextTaskId = 1
    /\ files = {}
    /\ nextFileId = 1
    /\ req = [p \in Procs |-> Idle]
    /\ resp = NoResp
    /\ issued = {}
    /\ registered = {}

\* ------------------------------------------------------------------ auth

\* The where clause of the combined lookup of register and create.
MatchesAnyField(dto) ==
    {u \in users : \/ u.email = (IF dto.email = UNDEF THEN NULL ELSE dto.email)
                   \/ u.phoneNumber =
                        (IF dto.phoneNumber = UNDEF THEN NULL ELSE dto.phoneNumber)
                   \/ u.username = dto.username}

\* The three === comparisons against the row the lookup returned; "" when
\* none of them is true.
AlreadyInUse(found, dto) ==
    IF found = {} THEN ""
    ELSE LET existingUser == CHOOSE u \in found : TRUE IN
         IF existingUser.email = dto.email THEN "Email already in use"
         ELSE IF existingUser.phoneNumber = dto.phoneNumber
              THEN "Phone number already in use"
         ELSE IF existingUser.username = dto.username
              THEN "Username already in use"
         ELSE ""

\* register's catch block applied to a P2002 error whose meta.target is
\* `target`: the response it turns the error into.
TranslateP2002(target) ==
    IF Includes(target, str_email)
    THEN Reply("register", 400, "Email already in use")
    ELSE IF Includes(target, str_username)
    THEN Reply("register", 400, "Username already in use")
    ELSE IF Includes(target, str_phoneNumber)
    THEN Reply("register", 400, "Phone number already in use")
    ELSE Reply("register", 500, "An error occurred during registration")

\* A registration that makes administrators.
RegisterRowAsAdmin(dto) ==
    [id |-> nextUserId, email |-> Column(dto.email),
     phoneNumber |-> Column(dto.phoneNumber), username |-> dto.username,
     password |-> BcryptHash(dto.password), role |-> "Admin",
     profilePicture |-> NULL]

\* The row prisma.user.create inserts for register (role: the column default).
RegisterRow(dto) ==
    [id |-> nextUserId, email |-> Column(dto.email),
     phoneNumber |-> Column(dto.phoneNumber), username |-> dto.username,
     password |-> BcryptHash(dto.password), role |-> "User",
     profilePicture |-> NULL]

\* !v for an optional string of a request body: omitted or null.
Missing(v) == v \in {UNDEF, NULL}

\* A validation that asks for no contact.
NeverLacksContact(dto) == FALSE

\* !email && !phoneNumber
LacksContact(dto) == Missing(dto.email) /\ Missing(dto.phoneNumber)

\* AuthService.register up to the end of the pre-check (validation, findFirst,
\* the three comparisons).
RegisterCheck(p, dto) ==
    /\ req[p] = Idle
    /\ UNCHANGED <<users, nextUserId, tasks, nextTaskId, files, nextFileId,
                   issued, registered>>
    /\ LET call == [op |-> "register", pc |-> "create", dto |-> dto,
                    seen |-> users]
       IN IF dto.username = UNDEF
          THEN Answer(p, call, Reply("register", 400, "Username is required"))
          ELSE IF dto.password = UNDEF
          THEN Answer(p, call, Reply("register", 400, "Password is required"))
          ELSE IF LacksContact(dto)
          THEN Answer(p, call,
                      Reply("register", 400,
                            "Either email or phone number must be provided"))
          ELSE \E found \in FindFirst(MatchesAnyField(dto)) :
                 IF AlreadyInUse(found, dto) # ""
                 THEN Answer(p, call,
                             Reply("register", 400, AlreadyInUse(found, dto)))
                 ELSE Continue(p, call)

\* AuthService.register from bcrypt.hash on: the insert, and either the
\* response or the catch block.
RegisterCreate(p) ==
    /\ req[p].op = "register"
    /\ LET dto == req[p].dto
           row == RegisterRow(dto)
           violated == ViolatedIndex(users, row)
       IN IF violated # "none"
          THEN /\ Finish(p, TranslateP2002(IndexName(violated)))
               /\ UNCHANGED <<users, nextUserId, issued, registered>>
          ELSE /\ nextUserId <= MaxUserId
               /\ users' = users \cup {row}
               /\ nextUserId' = nextUserId + 1
               /\ issued' = issued \cup {Signed(generateToken(row))}
               /\ registered' = registered \cup
                     {[id |-> row.id, username |-> dto.username,
                       password |-> dto.password, stored |-> row.password]}
               /\ Finish(p, buildUserResponse("register", 201, row))
    /\ UNCHANGED <<tasks, nextTaskId, files, nextFileId>>

\* AuthService.login, behind POST /auth/login (which answers 200).
\* A failure that names the check that failed.
NamedFailure(check) ==
    Reply("login", 401, IF check = "user" THEN "User not found"
                                          ELSE "Invalid password")

\* login's two UnauthorizedException throws: the missing user and the
\* non-matching password carry the same message.
InvalidCredentials(check) == Reply("login", 401, "Invalid credentials")

Login(p, dto) ==
    /\ req[p] = Idle
    /\ LET call == [op |-> "login", dto |-> dto]
           found == FindByUsername(dto.username)
       IN IF dto.username = UNDEF
          THEN /\ Answer(p, call, Reply("login", 400, "Username is required"))
               /\ UNCHANGED issued
          ELSE IF dto.password = UNDEF
          THEN /\ Answer(p, call, Reply("login", 400, "Password is required"))
               /\ UNCHANGED issued
          ELSE IF found = {}
          THEN /\ Answer(p, call, InvalidCredentials("user"))
               /\ UNCHANGED issued
          ELSE LET user == CHOOSE u \in found : TRUE IN
               IF ~BcryptCompare(dto.password, user.password)
               THEN /\ Answer(p, call, InvalidCredentials("password"))
                    /\ UNCHANGED issued
               ELSE /\ Answer(p, call, buildUserResponse("login", 200, user))
                    /\ issued' = issued \cup {Signed(generateToken(user))}
    /\ UNCHANGED <<users, nextUserId, tasks, nextTaskId, files, nextFileId,
                   registered>>

\* ------------------------------------------------------------------ guards

\* What a request presents: no (or no valid) bearer token, or a token the
\* server signed.
NoToken == [sub |-> 0]
Credentials == {NoToken} \cup issued

\* The tokens of the seeded accounts with these ids.
TokensOf(ids) ==
    {Signed(generateToken(u)) : u \in {v \in users : v.id \in ids}}

\* A guard that lets every authenticated request through.
AllowAnyRole(requiredRoles, user) == TRUE

\* RolesGuard.canActivate for the roles the route declares ({} when it
\* declares none) and request.user.
canActivate(requiredRoles, user) ==
    IF requiredRoles = {} THEN TRUE
    ELSE \E role \in requiredRoles : user.role = role

\* Guards that take the account from the token without loading it.
AuthorizeFromToken(cred, requiredRoles) ==
    IF cred = NoToken
    THEN [status |-> 401, message |-> "Unauthorized", user |-> {}]
    ELSE [status |-> 200, message |-> "",
          user |-> {WithoutPassword([SeedAdmin EXCEPT !.id = cred.sub])}]

\* Guards that go by the role the token was signed with.
AuthorizeByTokenRole(cred, requiredRoles) ==
    IF cred = NoToken
    THEN [status |-> 401, message |-> "Unauthorized", user |-> {}]
    ELSE LET found == FindById(cred.sub) IN
         IF found = {}
         THEN [status |-> 401, message |-> "User not found", user |-> {}]
         ELSE LET user == WithoutPassword(CHOOSE u \in found : TRUE) IN
              IF ~canActivate(requiredRoles, [user EXCEPT !.role = cred.role])
              THEN [status |-> 403, message |-> "Forbidden resource",
                    user |-> {}]
              ELSE [status |-> 200, message |-> "", user |-> {user}]

\* JwtAuthGuard with JwtStrategy.validate, then RolesGuard.  The result is
\* the refusal, or status 200 with request.user.
Authorize(cred, requiredRoles) ==
    IF cred = NoToken
    THEN [status |-> 401, message |-> "Unauthorized", user |-> {}]
    ELSE LET found == FindById(cred.sub) IN
         IF found = {}
         THEN [status |-> 401, message |-> "User not found", user |-> {}]
         ELSE LET user == WithoutPassword(CHOOSE u \in found : TRUE) IN
              IF ~canActivate(requiredRoles, user)
              THEN [status |-> 403, message |-> "Forbidden resource",
                    user |-> {}]
              ELSE [status |-> 200, message |-> "", user |-> {user}]

\* @Roles(UserRole.Admin) on UsersController
UsersRoles == {"Admin"}

\* The guards of a route: refuse, or hand the request to the handler, which
\* reads the parameters and the body.
Guarded(p, cred, requiredRoles, op) ==
    /\ req[p] = Idle
    /\ LET g == Authorize(cred, requiredRoles) IN
       IF g.status # 200
       THEN Answer(p, [op |-> op, pc |-> "guard", cred |-> cred],
                   Reply(op, g.status, g.message))
       ELSE Continue(p, [op |-> op, pc |-> "handler", cred |-> cred,
                         user |-> CHOOSE u \in g.user : TRUE])
    /\ UNCHANGED <<users, nextUserId, tasks, nextTaskId, files, nextFileId,
                   issued, registered>>

\* A request that has passed the guards and stands at step pc of handler op.
At(p, op, pc) == req[p].op = op /\ req[p].pc = pc

\* The request of process p, with its arguments, at step pc.
With(p, pc, args) ==
    [f \in {"op", "pc", "cred", "user"} \cup DOMAIN args |->
        IF f = "pc" THEN pc
        ELSE IF f \in DOMAIN args THEN args[f] ELSE req[p][f]]

\* An exception no handler catches: Nest answers 500.
InternalServerError(op) == Reply(op, 500, "Internal server error")

\* A response whose body is one account.
AccountReply(op, status, user) ==
    [NoResp EXCEPT !.op = op, !.status = status,
                   !.accounts = {WithoutPassword(user)}]

\* ------------------------------------------------------------------ users

\* `User with ID ${id} not found`
UserNotFound(id) ==
    <<"User with ID 1 not found", "User with ID 2 not found",
      "User with ID 3 not found", "User with ID 4 not found",
      "User with ID 5 not found">>[id]

\* POST /users: the guards.
UsersCreate(p, cred) == Guarded(p, cred, UsersRoles, "users.create")

\* UsersService.create up to the end of the pre-check.
UsersCreateCheck(p, dto) ==
    /\ At(p, "users.create", "handler")
    /\ LET call == With(p, "create", [dto |-> dto, seen |-> users]) IN
       IF LacksContact(dto)
       THEN Answer(p, call,
                   Reply("users.create", 400,
                         "Either email or phone number must be provided"))
       ELSE \E found \in FindFirst(MatchesAnyField(dto)) :
              IF AlreadyInUse(found, dto) # ""
              THEN Answer(p, call, Reply("users.create", 400,
                                         AlreadyInUse(found, dto)))
              ELSE Continue(p, call)
    /\ UNCHANGED <<users, nextUserId, tasks, nextTaskId, files, nextFileId,
                   issued, registered>>

\* The row prisma.user.create inserts for { ...createUserDto, password }.
CreateUserRow(dto) ==
    [id |-> nextUserId, email |-> Column(dto.email),
     phoneNumber |-> Column(dto.phoneNumber), username |-> dto.username,
     password |-> BcryptHash(dto.password),
     role |-> (IF dto.role = UNDEF THEN "User" ELSE dto.role),
     profilePicture |-> NULL]

\* UsersService.create from bcrypt.hash on.
UsersCreateInsert(p) ==
    /\ At(p, "users.create", "create")
    /\ LET row == CreateUserRow(req[p].dto) IN
       IF ViolatedIndex(users, row) # "none"
       THEN /\ Finish(p, InternalServerError("users.create"))
            /\ UNCHANGED <<users, nextUserId>>
       ELSE /\ nextUserId <= MaxUserId
            /\ users' = users \cup {row}
            /\ nextUserId' = nextUserId + 1
            /\ Finish(p, AccountReply("users.create", 201, row))
    /\ UNCHANGED <<tasks, nextTaskId, files, nextFileId, issued, registered>>

\* Math.ceil(a / b) for a >= 0, b > 0
Ceil(a, b) == (a + b - 1) \div b

\* GET /users: the guards.
UsersFindAll(p, cred) == Guarded(p, cred, UsersRoles, "users.findAll")

\* The rows the where clause of findAll selects (for a query with no
\* username or email filter).
QueryMatches(query) ==
    {u \in users : query.role = UNDEF \/ u.role = query.role}

\* findMany({ where, skip, take, select, orderBy: { createdAt: 'desc' } }):
\* rows are created in id order, so newest first is highest id first.
QueryPage(query) ==
    LET skip == (query.page - 1) * query.limit
        before(u) == Cardinality({v \in QueryMatches(query) : v.id > u.id})
    IN {WithoutPassword(u) :
          u \in {v \in QueryMatches(query) :
                   before(v) >= skip /\ before(v) < skip + query.limit}}

\* UsersService.findAll: the page read.
UsersFindMany(p, query) ==
    /\ At(p, "users.findAll", "handler")
    /\ Continue(p, With(p, "count",
                        [query |-> query, data |-> QueryPage(query)]))
    /\ UNCHANGED <<users, nextUserId, tasks, nextTaskId, files, nextFileId,
                   issued, registered>>

\* UsersService.findAll: the count, and the response.
UsersCount(p) ==
    /\ At(p, "users.findAll", "count")
    /\ LET query == req[p].query
           total == Cardinality(QueryMatches(query))
       IN Finish(p, [NoResp EXCEPT
                       !.op = "users.findAll", !.status = 200,
                       !.accounts = req[p].data,
                       !.meta = [total |-> total, page |-> query.page,
                                 limit |-> query.limit,
                                 totalPages |-> Ceil(total, query.limit)]])
    /\ UNCHANGED <<users, nextUserId, tasks, nextTaskId, files, nextFileId,
                   issued, registered>>

\* GET /users/:id: the guards.
UsersFindOne(p, cred) == Guarded(p, cred, UsersRoles, "users.findOne")

\* UsersService.findOne
UsersFindOneRead(p, id) ==
    /\ At(p, "users.findOne", "handler")
    /\ LET call == With(p, "find", [id |-> id])
           found == FindById(id)
       IN IF found = {}
          THEN Answer(p, call, Reply("users.findOne", 404, UserNotFound(id)))
          ELSE Answer(p, call, AccountReply("users.findOne", 200,
                                            CHOOSE u \in found : TRUE))
    /\ UNCHANGED <<users, nextUserId, tasks, nextTaskId, files, nextFileId,
                   issued, registered>>

\* PATCH /users/:id/role: the guards.
UsersUpdateRole(p, cred) == Guarded(p, cred, UsersRoles, "users.updateRole")

\* A validation that lets every role through.
IsAnything(role) == TRUE

\* Object.values(UserRole).includes(role)
IsUserRole(role) == role \in UserRole

\* UsersService.updateRole up to the end of the role validation.
UsersUpdateRoleFind(p, id, role) ==
    /\ At(p, "users.updateRole", "handler")
    /\ LET call == With(p, "write", [id |-> id, role |-> role]) IN
       IF FindById(id) = {}
       THEN Answer(p, call, Reply("users.updateRole", 404, UserNotFound(id)))
       ELSE IF ~IsUserRole(role)
       THEN Answer(p, call, Reply("users.updateRole", 400,
                                  "Invalid role. Must be Admin or User"))
       ELSE Continue(p, call)
    /\ UNCHANGED <<users, nextUserId, tasks, nextTaskId, files, nextFileId,
                   issued, registered>>

\* prisma.user.update({ where: { id }, data }) on a row that exists: the
\* table with the row replaced.
Replace(row, newRow) == (users \ {row}) \cup {newRow}

\* UsersService.updateRole: the update (P2025 when the row has gone).
UsersUpdateRoleWrite(p) ==
    /\ At(p, "users.updateRole", "write")
    /\ LET found == FindById(req[p].id) IN
       IF found = {}
       THEN /\ Finish(p, InternalServerError("users.updateRole"))
            /\ UNCHANGED users
       ELSE LET row == CHOOSE u \in found : TRUE
                newRow == [row EXCEPT !.role = req[p].role]
            IN /\ users' = Replace(row, newRow)
               /\ Finish(p, AccountReply("users.updateRole", 200, newRow))
    /\ UNCHANGED <<nextUserId, tasks, nextTaskId, files, nextFileId, issued,
                   registered>>

\* DELETE /users/:id: the guards.
UsersRemove(p, cred) == Guarded(p, cred, UsersRoles, "users.remove")

\* UsersService.remove: the existence check.
UsersRemoveFind(p, id) ==
    /\ At(p, "users.remove", "handler")
    /\ LET call == With(p, "delete", [id |-> id]) IN
       IF FindById(id) = {}
       THEN Answer(p, call, Reply("users.remove", 404, UserNotFound(id)))
       ELSE Continue(p, call)
    /\ UNCHANGED <<users, nextUserId, tasks, nextTaskId, files, nextFileId,
                   issued, registered>>

\* A foreign key that leaves the tasks of a deleted account in place.
OnDeleteKeep(userId) == tasks

\* tasks_user_id_fkey, ON DELETE CASCADE: the tasks that remain when the
\* account userId is deleted.
OnDeleteCascade(userId) == {t \in tasks : t.userId # userId}

\* UsersService.remove: the delete; tasks_user_id_fkey is ON DELETE CASCADE.
UsersRemoveDelete(p) ==
    /\ At(p, "users.remove", "delete")
    /\ IF FindById(req[p].id) = {}
       THEN /\ Finish(p, InternalServerError("users.remove"))
            /\ UNCHANGED <<users, tasks>>
       ELSE /\ users' = users \ FindById(req[p].id)
            /\ tasks' = OnDeleteCascade(req[p].id)
            /\ Finish(p, Reply("users.remove", 204, ""))
    /\ UNCHANGED <<nextUserId, nextTaskId, files, nextFileId, issued,
                   registered>>

\* PATCH /users/:id: the guards.
UsersUpdate(p, cred) == Guarded(p, cred, UsersRoles, "users.update")

\* UsersService.update: the existence check, and whether a duplicate lookup
\* is due.
UsersUpdateFind(p, id, dto) ==
    /\ At(p, "users.update", "handler")
    /\ LET call == With(p, "write", [id |-> id, dto |-> dto, seen |-> users])
       IN IF FindById(id) = {}
          THEN Answer(p, call, Reply("users.update", 404, UserNotFound(id)))
          ELSE IF dto.email # UNDEF \/ dto.phoneNumber # UNDEF
                  \/ dto.username # UNDEF
          THEN Continue(p, [call EXCEPT !.pc = "duplicate"])
          ELSE Continue(p, call)
    /\ UNCHANGED <<users, nextUserId, tasks, nextTaskId, files, nextFileId,
                   issued, registered>>

\* The lookup without NOT: { id }.
MatchesAnyRow(id, dto) ==
    {u \in users :
        \/ dto.email # UNDEF /\ u.email = dto.email
        \/ dto.phoneNumber # UNDEF /\ u.phoneNumber = dto.phoneNumber
        \/ dto.username # UNDEF /\ u.username = dto.username}

\* where: { OR: orConditions, NOT: { id } }
MatchesOtherThan(id, dto) ==
    {u \in users :
        /\ u.id # id
        /\ \/ dto.email # UNDEF /\ u.email = dto.email
           \/ dto.phoneNumber # UNDEF /\ u.phoneNumber = dto.phoneNumber
           \/ dto.username # UNDEF /\ u.username = dto.username}

\* Which field of duplicateUser update blames; "" when none.
DuplicateField(found, dto) ==
    IF found = {} THEN ""
    ELSE LET duplicateUser == CHOOSE u \in found : TRUE IN
         IF dto.email # UNDEF /\ duplicateUser.email = dto.email
         THEN "Email already in use"
         ELSE IF dto.phoneNumber # UNDEF
                 /\ duplicateUser.phoneNumber = dto.phoneNumber
         THEN "Phone number already in use"
         ELSE IF dto.username # UNDEF /\ duplicateUser.username = dto.username
         THEN "Username already in use"
         ELSE ""

\* UsersService.update: the duplicate lookup.
UsersUpdateDuplicate(p) ==
    /\ At(p, "users.update", "duplicate")
    /\ \E found \in FindFirst(MatchesOtherThan(req[p].id, req[p].dto)) :
         IF DuplicateField(found, req[p].dto) # ""
         THEN Finish(p, Reply("users.update", 400,
                              DuplicateField(found, req[p].dto)))
         ELSE Continue(p, [req[p] EXCEPT !.pc = "write", !.seen = users])
    /\ UNCHANGED <<users, nextUserId, tasks, nextTaskId, files, nextFileId,
                   issued, registered>>

\* data: the supplied fields replace the row's; a supplied password is hashed.
Updated(row, dto) ==
    [f \in DOMAIN row |->
        IF f \in DOMAIN dto /\ dto[f] # UNDEF
        THEN IF f = "password" THEN BcryptHash(dto[f]) ELSE dto[f]
        ELSE row[f]]

\* prisma.user.update as update and updateProfile use it: P2025 when the row
\* has gone, P2002 on a unique index, neither caught.
UpdateUser(p, op, id, dto) ==
    LET found == FindById(id) IN
    IF found = {}
    THEN /\ Finish(p, InternalServerError(op))
         /\ UNCHANGED users
    ELSE LET row == CHOOSE u \in found : TRUE
             newRow == Updated(row, dto)
         IN IF ViolatedIndex(users, newRow) # "none"
            THEN /\ Finish(p, InternalServerError(op))
                 /\ UNCHANGED users
            ELSE /\ users' = Replace(row, newRow)
                 /\ Finish(p, AccountReply(op, 200, newRow))

\* UsersService.update: the update.
UsersUpdateWrite(p) ==
    /\ At(p, "users.update", "write")
    /\ UpdateUser(p, "users.update", req[p].id, req[p].dto)
    /\ UNCHANGED <<nextUserId, tasks, nextTaskId, files, nextFileId, issued,
                   registered>>

\* ------------------------------------------------------------------ profile

\* GET /profile: the guard.
ProfileGet(p, cred) == Guarded(p, cred, {}, "profile.get")

\* ProfileService.getProfile
ProfileGetRead(p) ==
    /\ At(p, "profile.get", "handler")
    /\ LET found == FindById(req[p].user.id) IN
       IF found = {}
       THEN Finish(p, Reply("profile.get", 404, "User not found"))
       ELSE Finish(p, AccountReply("profile.get", 200,
                                   CHOOSE u \in found : TRUE))
    /\ UNCHANGED <<users, nextUserId, tasks, nextTaskId, files, nextFileId,
                   issued, registered>>

\* PATCH /profile: the guard.
ProfileUpdate(p, cred) == Guarded(p, cred, {}, "profile.update")

\* ProfileService.updateProfile: the existence check.
ProfileUpdateFind(p, dto) ==
    /\ At(p, "profile.update", "handler")
    /\ LET call == With(p, "write", [dto |-> dto, seen |-> users]) IN
       IF FindById(req[p].user.id) = {}
       THEN Answer(p, call, Reply("profile.update", 404, "User not found"))
       ELSE IF dto.email # UNDEF
       THEN Continue(p, [call EXCEPT !.pc = "duplicateEmail"])
       ELSE IF dto.phoneNumber # UNDEF
       THEN Continue(p, [call EXCEPT !.pc = "duplicatePhone"])
       ELSE Continue(p, call)
    /\ UNCHANGED <<users, nextUserId, tasks, nextTaskId, files, nextFileId,
                   issued, registered>>

\* ProfileService.checkForDuplicates: the email lookup.
ProfileUpdateDuplicateEmail(p) ==
    /\ At(p, "profile.update", "duplicateEmail")
    /\ LET dto == req[p].dto IN
       IF \E u \in users : u.email = dto.email /\ u.id # req[p].user.id
       THEN Finish(p, Reply("profile.update", 400, "Email already in use"))
       ELSE IF dto.phoneNumber # UNDEF
       THEN Continue(p, [req[p] EXCEPT !.pc = "duplicatePhone",
                                       !.seen = users])
       ELSE Continue(p, [req[p] EXCEPT !.pc = "write", !.seen = users])
    /\ UNCHANGED <<users, nextUserId, tasks, nextTaskId, files, nextFileId,
                   issued, registered>>

\* ProfileService.checkForDuplicates: the phone number lookup.
ProfileUpdateDuplicatePhone(p) ==
    /\ At(p, "profile.update", "duplicatePhone")
    /\ IF \E u \in users : /\ u.phoneNumber = req[p].dto.phoneNumber
                           /\ u.id # req[p].user.id
       THEN Finish(p, Reply("profile.update", 400,
                            "Phone number already in use"))
       ELSE Continue(p, [req[p] EXCEPT !.pc = "write", !.seen = users])
    /\ UNCHANGED <<users, nextUserId, tasks, nextTaskId, files, nextFileId,
                   issued, registered>>

\* ProfileService.updateProfile: the update.
ProfileUpdateWrite(p) ==
    /\ At(p, "profile.update", "write")
    /\ UpdateUser(p, "profile.update", req[p].user.id, req[p].dto)
    /\ UNCHANGED <<nextUserId, tasks, nextTaskId, files, nextFileId, issued,
                   registered>>

\* The names multer's filename callback gives the uploads, in order; each
\* carries a fresh uuid.
ProfileUploads ==
    <<"uploads/profiles/profile-1", "uploads/profiles/profile-2",
      "uploads/profiles/profile-3", "uploads/profiles/profile-4">>

\* What the multipart body of an upload carries: no file, a file whose name
\* passes the fileFilter, or one whose name does not.
Uploads == {"none", "image", "other"}

\* PATCH /profile/picture: the guard.
ProfilePicture(p, cred) == Guarded(p, cred, {}, "profile.picture")

\* FileInterceptor, the controller's check, and updateProfilePicture up to the
\* end of findUnique.
ProfilePictureUpload(p, upload) ==
    /\ At(p, "profile.picture", "handler")
    /\ LET call == With(p, "unlink", [upload |-> upload, file |-> NULL,
                                      old |-> NULL, caught |-> FALSE])
       IN IF upload = "other"
          THEN /\ Answer(p, call, InternalServerError("profile.picture"))
               /\ UNCHANGED <<files, nextFileId>>
          ELSE IF upload = "none"
          THEN /\ Answer(p, call, Reply("profile.picture", 400,
                                        "Profile picture file is required"))
               /\ UNCHANGED <<files, nextFileId>>
          ELSE /\ nextFileId <= MaxFileId
               /\ files' = files \cup {ProfileUploads[nextFileId]}
               /\ nextFileId' = nextFileId + 1
               /\ LET found == FindById(req[p].user.id)
                      stored == [call EXCEPT
                                   !.file = ProfileUploads[nextFileId]]
                  IN IF found = {}
                     THEN Answer(p, stored, Reply("profile.picture", 404,
                                                  "User not found"))
                     ELSE Continue(p, [stored EXCEPT !.old =
                              (CHOOSE u \in found : TRUE).profilePicture])
    /\ UNCHANGED <<users, nextUserId, tasks, nextTaskId, issued, registered>>

\* An unlinkSync that never removes the file.
UnlinkNothing(path, fails) == UNCHANGED files

\* if (fs.existsSync(path)) fs.unlinkSync(path), for a path that may be NULL:
\* the file goes when it is there and unlinkSync does not throw.
Unlink(path, fails) ==
    IF path # NULL /\ path \in files /\ ~fails
    THEN files' = files \ {path}
    ELSE UNCHANGED files

\* unlinkSync has thrown: the file is there and could not be removed.
Failed(path, fails) == path # NULL /\ path \in files /\ fails

\* A catch block that lets the failure end the request.
RethrowError(p, next, failed) ==
    IF failed
    THEN Finish(p, InternalServerError(req[p].op))
    ELSE Continue(p, [req[p] EXCEPT !.pc = next])

\* catch (error) { console.error(...) }: the request goes on to its
\* database write whether or not unlinkSync threw.
SwallowError(p, next, failed) ==
    Continue(p, [req[p] EXCEPT !.pc = next, !.caught = failed])

\* updateProfilePicture: the old picture is removed.
ProfilePictureUnlink(p) ==
    /\ At(p, "profile.picture", "unlink")
    /\ \E fails \in BOOLEAN :
         /\ Unlink(req[p].old, fails)
         /\ SwallowError(p, "write", Failed(req[p].old, fails))
    /\ UNCHANGED <<users, nextUserId, tasks, nextTaskId, nextFileId, issued,
                   registered>>

\* updateProfilePicture: the update (P2025 when the row has gone).
ProfilePictureWrite(p) ==
    /\ At(p, "profile.picture", "write")
    /\ LET found == FindById(req[p].user.id) IN
       IF found = {}
       THEN /\ Finish(p, InternalServerError("profile.picture"))
            /\ UNCHANGED users
       ELSE LET row == CHOOSE u \in found : TRUE
                newRow == [row EXCEPT !.profilePicture = req[p].file]
            IN /\ users' = Replace(row, newRow)
               /\ Finish(p, AccountReply("profile.picture", 200, newRow))
    /\ UNCHANGED <<nextUserId, tasks, nextTaskId, files, nextFileId, issued,
                   registered>>

\* getProfilePicture's check of the requester: an UnauthorizedException.
OwnPictureOnly(userId, requestingUserId) ==
    IF userId # requestingUserId
    THEN [status |-> 401,
          message |-> "You can only access your own profile picture"]
    ELSE [status |-> 200, message |-> ""]

\* GET /profile/picture/:id: the guard.
ProfilePictureGet(p, cred) == Guarded(p, cred, {}, "profile.getPicture")

\* ProfileService.getProfilePicture, then res.sendFile, which answers 404
\* when the file is not there.
ProfilePictureGetRead(p, id) ==
    /\ At(p, "profile.getPicture", "handler")
    /\ LET call == With(p, "find", [id |-> id])
           found == FindById(id)
           own == OwnPictureOnly(id, req[p].user.id)
           op == "profile.getPicture"
       IN IF found = {}
          THEN Answer(p, call, Reply(op, 404, "User not found"))
          ELSE IF own.status # 200
          THEN Answer(p, call, Reply(op, own.status, own.message))
          ELSE LET user == CHOOSE u \in found : TRUE IN
               IF user.profilePicture = NULL
               THEN Answer(p, call,
                           Reply(op, 404, "Profile picture not found"))
               ELSE IF user.profilePicture \notin files
               THEN Answer(p, call, Reply(op, 404, "ENOENT"))
               ELSE Answer(p, call, [NoResp EXCEPT !.op = op, !.status = 200,
                                        !.path = user.profilePicture])
    /\ UNCHANGED <<users, nextUserId, tasks, nextTaskId, files, nextFileId,
                   issued, registered>>

\* ------------------------------------------------------------------ tasks

FindTask(taskId) == {t \in tasks : t.id = taskId}

\* A lookup by id that does not compare the owner.
getTaskOfAnyone(taskId, userId) ==
    IF FindTask(taskId) = {}
    THEN [status |-> 404, message |-> "Task not found", task |-> {}]
    ELSE [status |-> 200, message |-> "", task |-> FindTask(taskId)]

\* A lookup that answers "not found" for a task of another account as well.
getTaskHidingOthers(taskId, userId) ==
    IF \E t \in FindTask(taskId) : t.userId = userId
    THEN [status |-> 200, message |-> "", task |-> FindTask(taskId)]
    ELSE [status |-> 404, message |-> "Task not found", task |-> {}]

\* TasksService.getTaskById: the refusal, or status 200 with the task.
getTaskById(taskId, userId) ==
    LET found == FindTask(taskId) IN
    IF found = {}
    THEN [status |-> 404, message |-> "Task not found", task |-> {}]
    ELSE IF (CHOOSE t \in found : TRUE).userId # userId
    THEN [status |-> 403, message |-> "You can only access your own tasks",
          task |-> {}]
    ELSE [status |-> 200, message |-> "", task |-> found]

\* A response whose body is one task.
TaskReply(op, status, task) ==
    [NoResp EXCEPT !.op = op, !.status = status, !.tasks = {task}]

\* The ownership check that opens updateTask, deleteTask and the attachment
\* operations: refuse, or go on to step pc with the task's attachment noted.
CheckTask(p, op, pc, call) ==
    LET r == getTaskById(call.id, req[p].user.id) IN
    IF r.status # 200
    THEN Answer(p, call, Reply(op, r.status, r.message))
    ELSE Continue(p, [call EXCEPT !.pc = pc,
                        !.old = (CHOOSE t \in r.task : TRUE).attachment])

\* prisma.task.update({ where: { id }, data }): P2025 when the row has gone.
UpdateTask(p, op, data) ==
    LET found == FindTask(req[p].id) IN
    IF found = {}
    THEN /\ Finish(p, InternalServerError(op))
         /\ UNCHANGED tasks
    ELSE LET row == CHOOSE t \in found : TRUE IN
         /\ tasks' = (tasks \ {row}) \cup {Updated(row, data)}
         /\ Finish(p, TaskReply(op, 200, Updated(row, data)))

\* POST /tasks: the guard.
TasksCreate(p, cred) == Guarded(p, cred, {}, "tasks.create")

\* TasksService.createTask (tasks_user_id_fkey fails when the caller's row
\* has gone).
TasksCreateInsert(p, dto) ==
    /\ At(p, "tasks.create", "handler")
    /\ LET call == With(p, "create", [dto |-> dto])
           row == [id |-> nextTaskId, userId |-> req[p].user.id,
                   name |-> dto.name, description |-> Column(dto.description),
                   attachment |-> NULL]
       IN IF FindById(req[p].user.id) = {}
          THEN /\ Answer(p, call, InternalServerError("tasks.create"))
               /\ UNCHANGED <<tasks, nextTaskId>>
          ELSE /\ nextTaskId <= MaxTaskId
               /\ tasks' = tasks \cup {row}
               /\ nextTaskId' = nextTaskId + 1
               /\ Answer(p, call, TaskReply("tasks.create", 201, row))
    /\ UNCHANGED <<users, nextUserId, files, nextFileId, issued, registered>>

\* GET /tasks: the guard.
TasksGetTasks(p, cred) == Guarded(p, cred, {}, "tasks.getTasks")

\* The characters of the task names, descriptions and search terms in use.
Letters(text) ==
    CASE text = "Doc" -> <<"D", "o", "c">>
      [] text = "tax" -> <<"t", "a", "x">>
      [] text = "a doc" -> <<"a", " ", "d", "o", "c">>
      [] text = "doc" -> <<"d", "o", "c">>
      [] text = "DOC" -> <<"D", "O", "C">>
      [] text = "zz" -> <<"z", "z">>
      [] text = "n1" -> <<"n", "1">>
      [] text = "n2" -> <<"n", "2">>

\* utf8mb4_unicode_ci compares letters without regard to case.
Fold(c) ==
    CASE c = "D" -> "d"
      [] c = "O" -> "o"
      [] c = "C" -> "c"
      [] OTHER -> c

\* { contains: search } on a nullable column of a utf8mb4_unicode_ci table
\* (LIKE '%search%'): NULL matches nothing.
Contains(column, search) ==
    /\ column # NULL
    /\ Includes([k \in DOMAIN Letters(column) |-> Fold(Letters(column)[k])],
                [k \in DOMAIN Letters(search) |-> Fold(Letters(search)[k])])

\* A where clause without the owner.
TasksOfAnyone(userId, search) ==
    {t \in tasks :
        search # UNDEF =>
           Contains(t.name, search) \/ Contains(t.description, search)}

\* The rows of the where clause of getTasks: the caller's tasks, and when a
\* search term is given those of them whose name or description contains
\* it.
TasksOf(userId, search) ==
    {t \in tasks :
        /\ t.userId = userId
        /\ search # UNDEF =>
              Contains(t.name, search) \/ Contains(t.description, search)}

\* @Max(100) on TaskQueryDto.limit
MaxLimit == 100

\* TasksService.getTasks: the validation pipe, then the count.
TasksCount(p, query) ==
    /\ At(p, "tasks.getTasks", "handler")
    /\ IF query.limit > MaxLimit
       THEN Answer(p, With(p, "findMany", [query |-> query, total |-> 0]),
                   Reply("tasks.getTasks", 400, "Limit cannot exceed 100"))
       ELSE Continue(p, With(p, "findMany",
                        [query |-> query,
                         total |-> Cardinality(
                            TasksOf(req[p].user.id, query.search))]))
    /\ UNCHANGED <<users, nextUserId, tasks, nextTaskId, files, nextFileId,
                   issued, registered>>

\* A page that ignores skip.
FirstPage(userId, query) ==
    LET rows == TasksOf(userId, query.search)
        before(t) == Cardinality({v \in rows : v.id > t.id})
    IN {t \in rows : before(t) < query.limit}

\* findMany({ where, skip, take, orderBy: { createdAt: sortOrder } }): rows
\* are created in id order, so newest first is highest id first.
TasksPage(userId, query) ==
    LET skip == (query.page - 1) * query.limit
        rows == TasksOf(userId, query.search)
        before(t) ==
            Cardinality({v \in rows : IF query.sortOrder = "desc"
                                      THEN v.id > t.id ELSE v.id < t.id})
    IN {t \in rows : before(t) >= skip /\ before(t) < skip + query.limit}

\* TasksService.getTasks: the page, and the response.
TasksFindMany(p) ==
    /\ At(p, "tasks.getTasks", "findMany")
    /\ LET query == req[p].query
           totalPages == Ceil(req[p].total, query.limit)
       IN Finish(p, [NoResp EXCEPT
                       !.op = "tasks.getTasks", !.status = 200,
                       !.tasks = TasksPage(req[p].user.id, query),
                       !.meta = [total |-> req[p].total, page |-> query.page,
                                 limit |-> query.limit,
                                 totalPages |-> totalPages,
                                 hasNext |-> query.page < totalPages,
                                 hasPrevious |-> query.page > 1]])
    /\ UNCHANGED <<users, nextUserId, tasks, nextTaskId, files, nextFileId,
                   issued, registered>>

\* GET /tasks/:id: the guard.
TasksGetTask(p, cred) == Guarded(p, cred, {}, "tasks.getTask")

\* TasksController.getTask
TasksGetTaskRead(p, id) ==
    /\ At(p, "tasks.getTask", "handler")
    /\ LET call == With(p, "find", [id |-> id])
           r == getTaskById(id, req[p].user.id)
       IN IF r.status # 200
          THEN Answer(p, call, Reply("tasks.getTask", r.status, r.message))
          ELSE Answer(p, call, TaskReply("tasks.getTask", 200,
                                         CHOOSE t \in r.task : TRUE))
    /\ UNCHANGED <<users, nextUserId, tasks, nextTaskId, files, nextFileId,
                   issued, registered>>

\* PATCH /tasks/:id: the guard.
TasksUpdate(p, cred) == Guarded(p, cred, {}, "tasks.update")

\* TasksService.updateTask: the ownership check.
TasksUpdateCheck(p, id, dto) ==
    /\ At(p, "tasks.update", "handler")
    /\ CheckTask(p, "tasks.update", "write",
                 With(p, "check", [id |-> id, dto |-> dto, old |-> NULL]))
    /\ UNCHANGED <<users, nextUserId, tasks, nextTaskId, files, nextFileId,
                   issued, registered>>

\* TasksService.updateTask: the update.
TasksUpdateWrite(p) ==
    /\ At(p, "tasks.update", "write")
    /\ UpdateTask(p, "tasks.update", req[p].dto)
    /\ UNCHANGED <<users, nextUserId, nextTaskId, files, nextFileId, issued,
                   registered>>

\* DELETE /tasks/:id: the guard.
TasksDelete(p, cred) == Guarded(p, cred, {}, "tasks.delete")

\* TasksService.deleteTask: the ownership check.
TasksDeleteCheck(p, id) ==
    /\ At(p, "tasks.delete", "handler")
    /\ CheckTask(p, "tasks.delete", "unlink",
                 With(p, "check", [id |-> id, old |-> NULL,
                                  caught |-> FALSE]))
    /\ UNCHANGED <<users, nextUserId, tasks, nextTaskId, files, nextFileId,
                   issued, registered>>

\* TasksService.deleteTask: the attachment file is removed.
TasksDeleteUnlink(p) ==
    /\ At(p, "tasks.delete", "unlink")
    /\ \E fails \in BOOLEAN :
         /\ Unlink(req[p].old, fails)
         /\ SwallowError(p, "delete", Failed(req[p].old, fails))
    /\ UNCHANGED <<users, nextUserId, tasks, nextTaskId, nextFileId, issued,
                   registered>>

\* TasksService.deleteTask: the delete (P2025 when the row has gone).
TasksDeleteDelete(p) ==
    /\ At(p, "tasks.delete", "delete")
    /\ IF FindTask(req[p].id) = {}
       THEN /\ Finish(p, InternalServerError("tasks.delete"))
            /\ UNCHANGED tasks
       ELSE /\ tasks' = tasks \ FindTask(req[p].id)
            /\ Finish(p, Reply("tasks.delete", 204, ""))
    /\ UNCHANGED <<users, nextUserId, nextTaskId, files, nextFileId, issued,
                   registered>>

\* ------------------------------------------------------------------ attachments

\* The names multer's filename callback gives the attachments, in order.
AttachmentUploads ==
    <<"uploads/attachments/attachment-1", "uploads/attachments/attachment-2",
      "uploads/attachments/attachment-3", "uploads/attachments/attachment-4">>

\* POST /tasks/:id/attachment: the guard.
AttachmentAdd(p, cred) == Guarded(p, cred, {}, "tasks.addAttachment")

\* FileInterceptor (every file name passes the fileFilter), the check for a
\* file, and addAttachment's ownership check.
AttachmentAddUpload(p, id, upload) ==
    /\ At(p, "tasks.addAttachment", "handler")
    /\ LET call == With(p, "check", [id |-> id, upload |-> upload,
                                     file |-> NULL, old |-> NULL,
                                     caught |-> FALSE])
       IN IF upload = "none"
          THEN /\ Answer(p, call, Reply("tasks.addAttachment", 400,
                                        "Attachment file is required"))
               /\ UNCHANGED <<files, nextFileId>>
          ELSE /\ nextFileId <= MaxFileId
               /\ files' = files \cup {AttachmentUploads[nextFileId]}
               /\ nextFileId' = nextFileId + 1
               /\ CheckTask(p, "tasks.addAttachment", "unlink",
                            [call EXCEPT
                               !.file = AttachmentUploads[nextFileId]])
    /\ UNCHANGED <<users, nextUserId, tasks, nextTaskId, issued, registered>>

\* addAttachment: the old attachment file is removed.
AttachmentAddUnlink(p) ==
    /\ At(p, "tasks.addAttachment", "unlink")
    /\ \E fails \in BOOLEAN :
         /\ Unlink(req[p].old, fails)
         /\ SwallowError(p, "write", Failed(req[p].old, fails))
    /\ UNCHANGED <<users, nextUserId, tasks, nextTaskId, nextFileId, issued,
                   registered>>

\* addAttachment: the update.
AttachmentAddWrite(p) ==
    /\ At(p, "tasks.addAttachment", "write")
    /\ UpdateTask(p, "tasks.addAttachment", [attachment |-> req[p].file])
    /\ UNCHANGED <<users, nextUserId, nextTaskId, files, nextFileId, issued,
                   registered>>

\* A task that always counts as having an attachment.
AlwaysAttached(task) == FALSE

\* !task.attachment
NoAttachment(task) == task.attachment = NULL

\* GET /tasks/:id/attachment: the guard.
AttachmentGet(p, cred) == Guarded(p, cred, {}, "tasks.getAttachment")

\* TasksService.getAttachment: the path stored with the task.
AttachmentGetRead(p, id) ==
    /\ At(p, "tasks.getAttachment", "handler")
    /\ LET call == With(p, "send", [id |-> id, path |-> NULL])
           r == getTaskById(id, req[p].user.id)
           op == "tasks.getAttachment"
       IN IF r.status # 200
          THEN Answer(p, call, Reply(op, r.status, r.message))
          ELSE LET task == CHOOSE t \in r.task : TRUE IN
               IF NoAttachment(task)
               THEN Answer(p, call, Reply(op, 404, "Attachment not found"))
               ELSE Continue(p, [call EXCEPT !.path = task.attachment])
    /\ UNCHANGED <<users, nextUserId, tasks, nextTaskId, files, nextFileId,
                   issued, registered>>

\* TasksController.getAttachment: res.sendFile, which answers 404 when the
\* file is not there.
AttachmentGetSend(p) ==
    /\ At(p, "tasks.getAttachment", "send")
    /\ IF req[p].path \notin files
       THEN Finish(p, Reply("tasks.getAttachment", 404, "ENOENT"))
       ELSE Finish(p, [NoResp EXCEPT !.op = "tasks.getAttachment",
                                    !.status = 200, !.path = req[p].path])
    /\ UNCHANGED <<users, nextUserId, tasks, nextTaskId, files, nextFileId,
                   issued, registered>>

\* DELETE /tasks/:id/attachment: the guard.
AttachmentRemove(p, cred) == Guarded(p, cred, {}, "tasks.removeAttachment")

\* removeAttachment: the ownership check and the check for an attachment.
AttachmentRemoveCheck(p, id) ==
    /\ At(p, "tasks.removeAttachment", "handler")
    /\ LET call == With(p, "check", [id |-> id, old |-> NULL,
                                     caught |-> FALSE])
           r == getTaskById(id, req[p].user.id)
           op == "tasks.removeAttachment"
       IN IF r.status = 200 /\ NoAttachment(CHOOSE t \in r.task : TRUE)
          THEN Answer(p, call, Reply(op, 404, "Attachment not found"))
          ELSE CheckTask(p, op, "unlink", call)
    /\ UNCHANGED <<users, nextUserId, tasks, nextTaskId, files, nextFileId,
                   issued, registered>>

\* removeAttachment: the attachment file is removed.
AttachmentRemoveUnlink(p) ==
    /\ At(p, "tasks.removeAttachment", "unlink")
    /\ \E fails \in BOOLEAN :
         /\ Unlink(req[p].old, fails)
         /\ SwallowError(p, "write", Failed(req[p].old, fails))
    /\ UNCHANGED <<users, nextUserId, tasks, nextTaskId, nextFileId, issued,
                   registered>>

\* removeAttachment: the update.
AttachmentRemoveWrite(p) ==
    /\ At(p, "tasks.removeAttachment", "write")
    /\ UpdateTask(p, "tasks.removeAttachment", [attachment |-> NULL])
    /\ UNCHANGED <<users, nextUserId, nextTaskId, files, nextFileId, issued,
                   registered>>

\* ------------------------------------------------------------------ inputs

\* Ids a request may name: every id ever given out, and one never given out.
UserIds == 1..(MaxUserId + 1)

\* RegisterDto: email and phoneNumber optional; username and password are
\* required by the pipe, and checked again by the service.
RegisterDtos ==
    [email : {"e1", UNDEF}, phoneNumber : {"p1", UNDEF},
     username : {"u1", "u2"}, password : {"pw1"}]
    \cup {[email |-> "e1", phoneNumber |-> UNDEF, username |-> UNDEF,
           password |-> "pw1"],
          [email |-> "e1", phoneNumber |-> UNDEF, username |-> "u1",
           password |-> UNDEF]}

LoginDtos ==
    [username : {"admin", "u1"}, password : {"AdminPassword123", "pw1"}]

\* CreateUserDto extends RegisterDto with an optional role.
CreateUserDtos ==
    [email : {"e1", UNDEF}, phoneNumber : {"p1", UNDEF},
     username : {"u1", "u2"}, password : {"pw1"}, role : {"Admin", UNDEF}]

\* UserQueryDto: page, limit and the role filter.
UserQueryDtos == [page : {1, 2}, limit : {1, 10}, role : {"User", UNDEF}]

\* A DTO in which every field but f is left out.
Only(fields, f, v) == [g \in fields |-> IF g = f THEN v ELSE UNDEF]

UpdateUserFields == {"email", "phoneNumber", "username", "password", "role"}

\* UpdateUserDto has no username: the validation pipe (whitelist,
\* forbidNonWhitelisted) lets none through.
UpdateUserDtos ==
    { Only(UpdateUserFields, "email", "e1"),
      Only(UpdateUserFields, "phoneNumber", "p1"),
      Only(UpdateUserFields, "password", "pw2"),
      Only(UpdateUserFields, "role", "Admin"),
      Only(UpdateUserFields, "role", "User"),
      [Only(UpdateUserFields, "email", "e1") EXCEPT !.phoneNumber = "p1"],
      Only(UpdateUserFields, "role", UNDEF) }

\* UpdateProfileDto has no username, password or role.
UpdateProfileDtos == [email : {"e1", UNDEF}, phoneNumber : {"p1", UNDEF}]

\* ------------------------------------------------------------------ system

\* The /auth routes, with bodies drawn from the given sets.
AuthStep(p, registerDtos, loginDtos) ==
    \/ \E dto \in registerDtos : RegisterCheck(p, dto)
    \/ RegisterCreate(p)
    \/ \E dto \in loginDtos : Login(p, dto)

\* The /users routes.
UsersStep(p, createDtos, queryDtos, ids, updateDtos, roles) ==
    \/ \E cred \in Credentials : UsersCreate(p, cred)
    \/ \E dto \in createDtos : UsersCreateCheck(p, dto)
    \/ UsersCreateInsert(p)
    \/ \E cred \in Credentials : UsersFindAll(p, cred)
    \/ \E query \in queryDtos : UsersFindMany(p, query)
    \/ UsersCount(p)
    \/ \E cred \in Credentials : UsersFindOne(p, cred)
    \/ \E id \in ids : UsersFindOneRead(p, id)
    \/ \E cred \in Credentials : UsersUpdate(p, cred)
    \/ \E id \in ids, dto \in updateDtos : UsersUpdateFind(p, id, dto)
    \/ UsersUpdateDuplicate(p)
    \/ UsersUpdateWrite(p)
    \/ \E cred \in Credentials : UsersUpdateRole(p, cred)
    \/ \E id \in ids, role \in roles : UsersUpdateRoleFind(p, id, role)
    \/ UsersUpdateRoleWrite(p)
    \/ \E cred \in Credentials : UsersRemove(p, cred)
    \/ \E id \in ids : UsersRemoveFind(p, id)
    \/ UsersRemoveDelete(p)

\* GET /profile and PATCH /profile.
ProfileStep(p, profileDtos) ==
    \/ \E cred \in Credentials : ProfileGet(p, cred)
    \/ ProfileGetRead(p)
    \/ \E cred \in Credentials : ProfileUpdate(p, cred)
    \/ \E dto \in profileDtos : ProfileUpdateFind(p, dto)
    \/ ProfileUpdateDuplicateEmail(p)
    \/ ProfileUpdateDuplicatePhone(p)
    \/ ProfileUpdateWrite(p)

\* PATCH /profile/picture.
PictureStep(p) ==
    \/ \E cred \in Credentials : ProfilePicture(p, cred)
    \/ \E upload \in Uploads : ProfilePictureUpload(p, upload)
    \/ ProfilePictureUnlink(p)
    \/ ProfilePictureWrite(p)

\* One step of process p: registration, login, user administration and the
\* caller's own profile.
Step(p) ==
    \/ AuthStep(p, RegisterDtos, LoginDtos)
    \/ UsersStep(p, CreateUserDtos, UserQueryDtos, UserIds, UpdateUserDtos,
                 UserRole \cup {"InvalidRole"})
    \/ ProfileStep(p, UpdateProfileDtos)

\* Requests served one at a time.
Next == Step(1)

Spec == Init /\ [][Next]_vars

\* ------------------------------------------------------------------ registration

\* A freshly migrated database: no rows.
InitEmpty ==
    /\ users = {}
    /\ nextUserId = 1
    /\ tasks = {}
    /\ nextTaskId = 1
    /\ files = {}
    /\ nextFileId = 1
    /\ req = [p \in Procs |-> Idle]
    /\ resp = NoResp
    /\ issued = {}
    /\ registered = {}

WideRegisterDtos ==
    [email : Emails \cup {UNDEF}, phoneNumber : Phones \cup {UNDEF},
     username : Usernames, password : {"pw1"}]

WideLoginDtos == [username : Usernames, password : {"pw1", "pw2"}]

\* Registrations and logins over the wide value sets.
RegStep(p) == AuthStep(p, WideRegisterDtos, WideLoginDtos)

\* Registrations and logins served one at a time.
RegSeqNext == RegStep(1)

RegSeqSpec == InitEmpty /\ [][RegSeqNext]_vars

\* Registrations and logins served concurrently.
RegNext == \E p \in Procs : RegStep(p)

RegSpec == InitEmpty /\ [][RegNext]_vars

\* ------------------------------------------------------------------ races

\* The administrator has logged in.
InitLoggedIn ==
    /\ users = {SeedAdmin}
    /\ nextUserId = 2
    /\ tasks = {}
    /\ nextTaskId = 1
    /\ files = {}
    /\ nextFileId = 1
    /\ req = [p \in Procs |-> Idle]
    /\ resp = NoResp
    /\ issued = {Signed(generateToken(SeedAdmin))}
    /\ registered = {}

\* Requests that write the same email, and the same phone number.
RaceRegisterDtos ==
    {[email |-> "e1", phoneNumber |-> UNDEF, username |-> "u1",
      password |-> "pw1"],
     [email |-> UNDEF, phoneNumber |-> "p1", username |-> "u2",
      password |-> "pw1"]}

RaceCreateUserDtos ==
    {[email |-> "e1", phoneNumber |-> UNDEF, username |-> "u2",
      password |-> "pw1", role |-> UNDEF],
     [email |-> UNDEF, phoneNumber |-> "p1", username |-> "u1",
      password |-> "pw1", role |-> "Admin"]}

RaceUpdateUserDtos ==
    { Only(UpdateUserFields, "email", "e1"),
      Only(UpdateUserFields, "phoneNumber", "p1") }

RaceUpdateProfileDtos ==
    {[email |-> "e1", phoneNumber |-> UNDEF],
     [email |-> UNDEF, phoneNumber |-> "p1"]}

\* The writers of the unique columns, served concurrently: register, admin
\* create, admin update and updateProfile.
RaceStep(p) ==
    \/ \E dto \in RaceRegisterDtos : RegisterCheck(p, dto)
    \/ RegisterCreate(p)
    \/ \E cred \in Credentials : UsersCreate(p, cred)
    \/ \E dto \in RaceCreateUserDtos : UsersCreateCheck(p, dto)
    \/ UsersCreateInsert(p)
    \/ \E cred \in Credentials : UsersUpdate(p, cred)
    \/ \E id \in 1..MaxUserId, dto \in RaceUpdateUserDtos :
         UsersUpdateFind(p, id, dto)
    \/ UsersUpdateDuplicate(p)
    \/ UsersUpdateWrite(p)
    \/ \E cred \in Credentials : ProfileUpdate(p, cred)
    \/ \E dto \in RaceUpdateProfileDtos : ProfileUpdateFind(p, dto)
    \/ ProfileUpdateDuplicateEmail(p)
    \/ ProfileUpdateDuplicatePhone(p)
    \/ ProfileUpdateWrite(p)

RaceNext == \E p \in Procs : RaceStep(p)

RaceSpec == InitLoggedIn /\ [][RaceNext]_vars

\* ------------------------------------------------------------------ accounts

\* A few request bodies of each kind.
FewRegisterDtos ==
    {[email |-> "e1", phoneNumber |-> UNDEF, username |-> "u1",
      password |-> "pw1"]}

FewLoginDtos ==
    {[username |-> "admin", password |-> "AdminPassword123"],
     [username |-> "u1", password |-> "pw1"]}

FewCreateUserDtos ==
    {[email |-> UNDEF, phoneNumber |-> "p1", username |-> "u2",
      password |-> "pw1", role |-> UNDEF]}

FewUserQueryDtos == {[page |-> 1, limit |-> 10, role |-> UNDEF]}

FewUpdateUserDtos ==
    {Only(UpdateUserFields, "password", "pw2"),
     Only(UpdateUserFields, "phoneNumber", "p2")}

FewUpdateProfileDtos ==
    {[email |-> "e2", phoneNumber |-> UNDEF],
     [email |-> UNDEF, phoneNumber |-> "p2"]}

\* Every operation that answers with account data.
AccountsStep(p) ==
    \/ AuthStep(p, FewRegisterDtos, FewLoginDtos)
    \/ UsersStep(p, FewCreateUserDtos, FewUserQueryDtos, 1..MaxUserId,
                 FewUpdateUserDtos, {"Admin"})
    \/ ProfileStep(p, FewUpdateProfileDtos)
    \/ PictureStep(p)

AccountsNext == AccountsStep(1)

AccountsSpec == Init /\ [][AccountsNext]_vars

\* ------------------------------------------------------------------ task owners

\* The row createTestUser inserts, as account number id.
SeedUser(id, username, email) ==
    [id |-> id, email |-> email, phoneNumber |-> NULL, username |-> username,
     password |-> BcryptHash("UserPassword123"), role |-> "User",
     profilePicture |-> NULL]

\* The administrator and two users have logged in.
InitOwners ==
    /\ users = {SeedAdmin, SeedUser(2, "user-a", "user-a@test.com"),
                SeedUser(3, "user-b", "user-b@test.com")}
    /\ nextUserId = 4
    /\ tasks = {}
    /\ nextTaskId = 1
    /\ files = {}
    /\ nextFileId = 1
    /\ req = [p \in Procs |-> Idle]
    /\ resp = NoResp
    /\ issued = TokensOf({1, 2, 3})
    /\ registered = {}

TaskIds == 1..MaxTaskId

CreateTaskDtos == [name : {"n1"}, description : {UNDEF}]

UpdateTaskDtos == {[name |-> "n2", description |-> UNDEF]}

TaskQueryDtos ==
    [page : {1}, limit : {1, 10}, sortOrder : {"desc"}, search : {UNDEF}]

\* The /tasks routes.
TasksStep(p, createDtos, queryDtos, ids, updateDtos) ==
    \/ \E cred \in Credentials : TasksCreate(p, cred)
    \/ \E dto \in createDtos : TasksCreateInsert(p, dto)
    \/ \E cred \in Credentials : TasksGetTasks(p, cred)
    \/ \E query \in queryDtos : TasksCount(p, query)
    \/ TasksFindMany(p)
    \/ \E cred \in Credentials : TasksGetTask(p, cred)
    \/ \E id \in ids : TasksGetTaskRead(p, id)
    \/ \E cred \in Credentials : TasksUpdate(p, cred)
    \/ \E id \in ids, dto \in updateDtos : TasksUpdateCheck(p, id, dto)
    \/ TasksUpdateWrite(p)
    \/ \E cred \in Credentials : TasksDelete(p, cred)
    \/ \E id \in ids : TasksDeleteCheck(p, id)
    \/ TasksDeleteUnlink(p)
    \/ TasksDeleteDelete(p)

\* The /tasks/:id/attachment routes.
AttachmentStep(p, ids) ==
    \/ \E cred \in Credentials : AttachmentAdd(p, cred)
    \/ \E id \in ids, upload \in {"none", "file"} :
         AttachmentAddUpload(p, id, upload)
    \/ AttachmentAddUnlink(p)
    \/ AttachmentAddWrite(p)
    \/ \E cred \in Credentials : AttachmentGet(p, cred)
    \/ \E id \in ids : AttachmentGetRead(p, id)
    \/ AttachmentGetSend(p)
    \/ \E cred \in Credentials : AttachmentRemove(p, cred)
    \/ \E id \in ids : AttachmentRemoveCheck(p, id)
    \/ AttachmentRemoveUnlink(p)
    \/ AttachmentRemoveWrite(p)

\* DELETE /users/:id, which takes the account's tasks with it.
RemoveStep(p, ids) ==
    \/ \E cred \in Credentials : UsersRemove(p, cred)
    \/ \E id \in ids : UsersRemoveFind(p, id)
    \/ UsersRemoveDelete(p)

\* Task and attachment requests of the three accounts, and the removal of
\* an owner, served one at a time.
TaskStep(p) ==
    \/ TasksStep(p, CreateTaskDtos, TaskQueryDtos, TaskIds, UpdateTaskDtos)
    \/ AttachmentStep(p, TaskIds)
    \/ RemoveStep(p, {2})

TaskNext == TaskStep(1)

TaskSpec == InitOwners /\ [][TaskNext]_vars

\* Task creation and lookup by the three accounts while accounts are being
\* removed, two requests at a time.
CascadeStep(p) ==
    \/ \E cred \in Credentials : TasksCreate(p, cred)
    \/ \E dto \in CreateTaskDtos : TasksCreateInsert(p, dto)
    \/ \E cred \in Credentials : TasksGetTask(p, cred)
    \/ \E id \in TaskIds : TasksGetTaskRead(p, id)
    \/ RemoveStep(p, 1..3)

CascadeNext == \E p \in Procs : CascadeStep(p)

CascadeSpec == InitOwners /\ [][CascadeNext]_vars

\* One user, logged in, alone with the server.
InitOwner ==
    /\ users = {SeedAdmin, SeedUser(2, "user-a", "user-a@test.com")}
    /\ nextUserId = 3
    /\ tasks = {}
    /\ nextTaskId = 1
    /\ files = {}
    /\ nextFileId = 1
    /\ req = [p \in Procs |-> Idle]
    /\ resp = NoResp
    /\ issued = TokensOf({2})
    /\ registered = {}

\* The requests that store and remove files: attachments, the deletion of
\* tasks and the profile picture.
FilesStep(p) ==
    \/ \E cred \in Credentials : TasksCreate(p, cred)
    \/ \E dto \in CreateTaskDtos : TasksCreateInsert(p, dto)
    \/ \E cred \in Credentials : TasksDelete(p, cred)
    \/ \E id \in TaskIds : TasksDeleteCheck(p, id)
    \/ TasksDeleteUnlink(p)
    \/ TasksDeleteDelete(p)
    \/ AttachmentStep(p, TaskIds)
    \/ PictureStep(p)

FilesNext == FilesStep(1)

FilesSpec == InitOwner /\ [][FilesNext]_vars

\* GET /profile/picture/:id
PictureGetStep(p, ids) ==
    \/ \E cred \in Credentials : ProfilePictureGet(p, cred)
    \/ \E id \in ids : ProfilePictureGetRead(p, id)

\* The three accounts store and fetch profile pictures, by the ids of
\* accounts that exist and of one that does not.
PictureNext == PictureStep(1) \/ PictureGetStep(1, 1..4)

PictureSpec == InitOwners /\ [][PictureNext]_vars

\* Bodies whose email and phone number are given, omitted or null.
ContactRegisterDtos ==
    [email : {"e1", UNDEF, NULL}, phoneNumber : {"p1", UNDEF, NULL},
     username : {"u1", "u2"}, password : {"pw1"}]

ContactCreateDtos ==
    [email : {"e1", UNDEF, NULL}, phoneNumber : {"p1", UNDEF, NULL},
     username : {"u1", "u2"}, password : {"pw1"}, role : {UNDEF}]

\* The two ways an account is created.
ContactStep(p) ==
    \/ \E dto \in ContactRegisterDtos : RegisterCheck(p, dto)
    \/ RegisterCreate(p)
    \/ \E cred \in Credentials : UsersCreate(p, cred)
    \/ \E dto \in ContactCreateDtos : UsersCreateCheck(p, dto)
    \/ UsersCreateInsert(p)

ContactNext == ContactStep(1)

ContactSpec == InitLoggedIn /\ [][ContactNext]_vars

\* The number of tasks the first user starts the listing with.
MaxListed == 3

\* The names and descriptions of the listed tasks, by id.
ListedName(id) == IF id % 2 = 1 THEN "Doc" ELSE "tax"

ListedDescription(id) == IF id % 3 = 2 THEN "a doc" ELSE NULL

ListedTask(id, userId) ==
    [id |-> id, userId |-> userId, name |-> ListedName(id),
     description |-> ListedDescription(id), attachment |-> NULL]

\* The first user has created MaxListed tasks and the second user one.
InitListed ==
    /\ users = {SeedAdmin, SeedUser(2, "user-a", "user-a@test.com"),
                SeedUser(3, "user-b", "user-b@test.com")}
    /\ nextUserId = 4
    /\ tasks = {ListedTask(id, 2) : id \in 1..MaxListed}
                 \cup {[ListedTask(MaxListed + 1, 3) EXCEPT
                            !.name = "Doc", !.description = "a doc"]}
    /\ nextTaskId = MaxListed + 2
    /\ files = {}
    /\ nextFileId = 1
    /\ req = [p \in Procs |-> Idle]
    /\ resp = NoResp
    /\ issued = TokensOf({2, 3})
    /\ registered = {}

\* Queries over pages, limits (one above the maximum), both orders and
\* search terms in either case.
ListQueryDtos ==
    [page : {1, 2, 3}, limit : {1, 2, 10, MaxLimit + 1},
     sortOrder : {"asc", "desc"}, search : {UNDEF, "doc", "DOC", "zz"}]

\* The two users list their tasks and delete some.
ListStep(p) ==
    \/ \E cred \in Credentials : TasksGetTasks(p, cred)
    \/ \E query \in ListQueryDtos : TasksCount(p, query)
    \/ TasksFindMany(p)
    \/ \E cred \in Credentials : TasksDelete(p, cred)
    \/ \E id \in 1..(MaxListed + 1) : TasksDeleteCheck(p, id)
    \/ TasksDeleteUnlink(p)
    \/ TasksDeleteDelete(p)

ListNext == ListStep(1)

ListSpec == InitListed /\ [][ListNext]_vars

\* One user owns one task, which has an attachment; the user and the
\* administrator have logged in.
InitAttached ==
    /\ users = {SeedAdmin, SeedUser(2, "user-a", "user-a@test.com")}
    /\ nextUserId = 3
    /\ tasks = {[id |-> 1, userId |-> 2, name |-> "n1", description |-> NULL,
                 attachment |-> AttachmentUploads[1]]}
    /\ nextTaskId = 2
    /\ files = {AttachmentUploads[1]}
    /\ nextFileId = 2
    /\ req = [p \in Procs |-> Idle]
    /\ resp = NoResp
    /\ issued = TokensOf({1, 2})
    /\ registered = {}

\* Requests on the one task, and the removal of its owner.
TaskRaceStep(p) ==
    \/ \E cred \in Credentials : TasksUpdate(p, cred)
    \/ \E dto \in UpdateTaskDtos : TasksUpdateCheck(p, 1, dto)
    \/ TasksUpdateWrite(p)
    \/ \E cred \in Credentials : TasksDelete(p, cred)
    \/ TasksDeleteCheck(p, 1)
    \/ TasksDeleteUnlink(p)
    \/ TasksDeleteDelete(p)
    \/ AttachmentStep(p, {1})
    \/ RemoveStep(p, {2})

\* Two requests at a time, their database and file accesses interleaved.
TaskRaceNext == \E p \in Procs : TaskRaceStep(p)

TaskRaceSpec == InitAttached /\ [][TaskRaceNext]_vars

\* ------------------------------------------------------------------ properties

\* The operations on one task that TasksService guards by owner.
OwnedTaskOps ==
    {"tasks.getTask", "tasks.update", "tasks.delete", "tasks.addAttachment",
     "tasks.getAttachment", "tasks.removeAttachment"}

\* C1: a step that changes or deletes a task's row is the step of a request
\* of the task's owner (or the removal of the owner's account by an Admin);
\* a step that removes the file a task's attachment names belongs to a
\* request of the owner; every task in a response body is owned by the
\* caller, and a path sent back is the attachment of a task the caller owns.
C1_OnlyOwnerReachesTask ==
    [][/\ \A t \in tasks :
            t \notin tasks' =>
               \E p \in Procs :
                  /\ req[p] # Idle
                  /\ req'[p] = Idle
                  /\ \/ /\ req[p].op \in OwnedTaskOps
                        /\ req[p].user.id = t.userId
                     \/ /\ req[p].op = "users.remove"
                        /\ req[p].user.role = "Admin"
                        /\ req[p].id = t.userId
       /\ \A t \in tasks :
            (t.attachment \in files /\ t.attachment \notin files') =>
               \E p \in Procs : /\ req[p] # Idle
                                /\ req[p].op \in OwnedTaskOps
                                /\ req[p].user.id = t.userId
       /\ \A t \in resp'.tasks : t.userId = resp'.request.user.id
       /\ resp'.path # NULL =>
            \E t \in tasks : /\ t.id = resp'.request.id
                             /\ t.userId = resp'.request.user.id
                             /\ t.attachment = resp'.path]_vars

\* A user asked for a task of another account, one with an attachment on
\* disk, and got 403.
C1_Witness ==
    /\ resp.op \in OwnedTaskOps
    /\ resp.status = 403
    /\ resp.request.user.role = "User"
    /\ \E t \in tasks : /\ t.id = resp.request.id
                        /\ t.userId # resp.request.user.id
                        /\ t.attachment \in files

UniqueFields == {"email", "phoneNumber", "username"}

\* The unique fields of a request body whose value some row of `table` holds.
HeldFields(table, dto) ==
    {f \in UniqueFields \cap DOMAIN dto :
        dto[f] # UNDEF /\ \E u \in table : u[f] = dto[f]}

\* As HeldFields, leaving the row with identifier id out.
HeldByOthers(table, id, dto) == HeldFields({u \in table : u.id # id}, dto)

InUseMessage(f) ==
    CASE f = "email" -> "Email already in use"
      [] f = "phoneNumber" -> "Phone number already in use"
      [] f = "username" -> "Username already in use"

\* A body register's own validation accepts.
ValidRegisterDto(dto) ==
    /\ dto.username # UNDEF
    /\ dto.password # UNDEF
    /\ dto.email # UNDEF \/ dto.phoneNumber # UNDEF

\* The step answers process resp'.proc's request to `op`, and it is the step
\* at `pc` of the handler that answers.
Answers(op, pc) ==
    /\ resp'.op = op
    /\ req[resp'.proc] # Idle
    /\ req[resp'.proc].pc = pc

\* C5: with requests served one at a time, a register whose username (and
\* nothing else) is held by an existing account is answered 400 "Username
\* already in use" and leaves the table alone; likewise for the email alone
\* and for the phone number alone, whatever other accounts exist.
C5_RegisterDuplicateRefused ==
    [][(resp'.op = "register" /\ ValidRegisterDto(resp'.request.dto)) =>
         \A f \in UniqueFields :
            HeldFields(users, resp'.request.dto) = {f} =>
               /\ resp'.status = 400
               /\ resp'.message = InUseMessage(f)
               /\ users' = users]_vars

\* C6: a register whose pre-check saw none of its username, email and phone
\* number in the table, and which finds one of them there when it inserts
\* (a concurrent register wrote it), is answered 400 with the "already in
\* use" message of a field now held, and inserts nothing.
C6_RegisterRaceLoserRefused ==
    [][Answers("register", "create") =>
         LET dto == resp'.request.dto
             late == HeldFields(users, dto)
         IN (HeldFields(resp'.request.seen, dto) = {} /\ late # {}) =>
               /\ resp'.status = 400
               /\ resp'.message \in {InUseMessage(f) : f \in late}
               /\ users' = users]_vars

\* C7: an admin create, admin update or updateProfile whose pre-check saw
\* no other account with its email, phone number or username, and which
\* finds one when it writes, is answered 400 with the "already in use"
\* message of a field now held, and changes no account.
C7_WriteRaceLoserRefused ==
    [][/\ Answers("users.create", "create") =>
            LET dto == resp'.request.dto
                late == HeldFields(users, dto)
            IN (HeldFields(resp'.request.seen, dto) = {} /\ late # {}) =>
                  /\ resp'.status = 400
                  /\ resp'.message \in {InUseMessage(f) : f \in late}
                  /\ users' = users
       /\ Answers("users.update", "write") =>
            LET dto == resp'.request.dto
                id == resp'.request.id
                late == HeldByOthers(users, id, dto)
            IN (/\ FindById(id) # {}
                /\ HeldByOthers(resp'.request.seen, id, dto) = {}
                /\ late # {}) =>
                  /\ resp'.status = 400
                  /\ resp'.message \in {InUseMessage(f) : f \in late}
                  /\ users' = users
       /\ Answers("profile.update", "write") =>
            LET dto == resp'.request.dto
                id == resp'.request.user.id
                late == HeldByOthers(users, id, dto)
            IN (/\ FindById(id) # {}
                /\ HeldByOthers(resp'.request.seen, id, dto) = {}
                /\ late # {}) =>
                  /\ resp'.status = 400
                  /\ resp'.message \in {InUseMessage(f) : f \in late}
                  /\ users' = users]_vars

\* C8: with requests served one at a time, an admin create whose username,
\* email or phone number some account holds is answered 400 with the
\* "already in use" message of a held field and inserts nothing; any other
\* admin create inserts exactly one account, its password stored hashed and
\* its role the one requested (User when none is).
C8_CreateUniqueness ==
    [][(/\ resp'.op = "users.create"
        /\ resp'.request.pc = "create"
        /\ resp'.request.dto.email # UNDEF
           \/ resp'.request.dto.phoneNumber # UNDEF) =>
         LET dto == resp'.request.dto
             held == HeldFields(users, dto)
         IN IF held # {}
            THEN /\ resp'.status = 400
                 /\ resp'.message \in {InUseMessage(f) : f \in held}
                 /\ users' = users
            ELSE /\ resp'.status = 201
                 /\ \E row \in users' :
                      /\ users' = users \cup {row}
                      /\ row \notin users
                      /\ row.username = dto.username
                      /\ row.password = BcryptHash(dto.password)
                      /\ row.password # dto.password
                      /\ row.role = IF dto.role = UNDEF THEN "User"
                                    ELSE dto.role]_vars

UsersOps ==
    {"users.create", "users.findAll", "users.findOne", "users.update",
     "users.updateRole", "users.remove"}

\* C2: a request to a /users route is refused at the guards exactly when
\* its token names no Admin account: with 401 when it carries no token of an
\* existing account, with 403 when the account's role is not Admin, and in
\* both cases no account changes; an Admin's request reaches the handler,
\* which never answers 401 or 403.
C2_UsersRoutesAdminOnly ==
    [][/\ (resp'.op \in UsersOps /\ resp'.request.pc = "guard") =>
            /\ users' = users
            /\ LET holder == FindById(resp'.request.cred.sub) IN
               IF holder = {} THEN resp'.status = 401
               ELSE /\ resp'.status = 403
                    /\ \A u \in holder : u.role # "Admin"
       /\ \A p \in Procs :
            (req[p] = Idle /\ req'[p] # Idle /\ req'[p].op \in UsersOps) =>
               \E u \in users : u.id = req'[p].cred.sub /\ u.role = "Admin"
       /\ \A p \in Procs :
            (req[p] # Idle /\ req[p].op \in UsersOps /\ resp'.proc = p) =>
               resp'.status \notin {401, 403}]_vars

\* A registered (non-Admin) account asked for a /users route and got 403.
C2_Witness ==
    /\ resp.op \in UsersOps
    /\ resp.status = 403
    /\ \E u \in users : /\ u.id = resp.request.cred.sub
                        /\ u.role = "User"
                        /\ \E r \in registered : r.id = u.id

\* The operations that write a role a request supplies.
AdminWriters == {"users.create", "users.update", "users.updateRole"}

\* C3: a step that inserts an account whose role is not User, or changes the
\* role of an account, is the write of an admin create, admin update or
\* updateRole that RolesGuard admitted as an Admin; so register inserts
\* User accounts only and updateProfile changes no role.
C3_RoleOnlyByAdmin ==
    [][\A v \in users' :
         (IF \E u \in users : u.id = v.id
          THEN \E u \in users : u.id = v.id /\ u.role # v.role
          ELSE v.role # "User") =>
            \E p \in Procs : /\ req[p] # Idle
                             /\ req[p].op \in AdminWriters
                             /\ req[p].user.role = "Admin"
                             /\ req'[p] = Idle]_vars

\* An account that registered (as User) has been made Admin by an
\* administrator's updateRole or update.
C3_Witness ==
    /\ resp.op \in {"users.updateRole", "users.update"}
    /\ resp.status = 200
    /\ \E a \in resp.accounts :
         a.role = "Admin" /\ \E r \in registered : r.id = a.id

\* C4: no two distinct accounts have the same username, the same non-NULL
\* email or the same non-NULL phone number, however register, admin create,
\* admin update and updateProfile interleave.
C4_UniqueColumns ==
    \A u, v \in users :
        u # v =>
           /\ u.id # v.id
           /\ u.username # v.username
           /\ u.email = NULL \/ u.email # v.email
           /\ u.phoneNumber = NULL \/ u.phoneNumber # v.phoneNumber

\* A writer passed its pre-check, lost the race for a value and was turned
\* away by the unique index.
C4_Witness ==
    /\ resp.op \in {"register", "users.create"}
    /\ resp.status \in {400, 500}
    /\ resp.request.pc = "create"
    /\ HeldFields(resp.request.seen, resp.request.dto) = {}
    /\ HeldFields(users, resp.request.dto) # {}

\* C9: no account object in a response body, and no request.user attached
\* by token verification, has a password field.
C9_NoPasswordReturned ==
    /\ \A a \in resp.accounts : "password" \notin DOMAIN a
    /\ \A p \in Procs :
         (req[p] # Idle /\ "user" \in DOMAIN req[p]) =>
            "password" \notin DOMAIN req[p].user

\* An upload has answered with the account whose picture it set.
C9_Witness ==
    /\ resp.op = "profile.picture"
    /\ resp.status = 200
    /\ \E a \in resp.accounts : a.profilePicture \in files

\* The registrations a login's username and password are those of.
RegisteredAs(dto) ==
    {r \in registered :
        r.username = dto.username /\ r.password = dto.password}

\* C10 as stated: a login with the username and password of a successful
\* registration is answered 200 with a token whose subject is the id of the
\* account that registration created.
C10_LoginAfterRegister ==
    [][resp'.op = "login" =>
         \A r \in RegisteredAs(resp'.request.dto) :
            /\ resp'.status = 200
            /\ \A t \in resp'.tokens : t.sub = r.id]_vars

\* C10, for accounts that are still there: when the account a registration
\* created still exists with the username and the stored password it was
\* created with, a login with that username and password is answered 200
\* with a token whose subject is that account's id.
C10_LoginAfterRegisterWhileUnchanged ==
    [][resp'.op = "login" =>
         \A r \in RegisteredAs(resp'.request.dto) :
            (\E u \in users : /\ u.id = r.id
                              /\ u.username = r.username
                              /\ u.password = r.stored) =>
               /\ resp'.status = 200
               /\ resp'.tokens # {}
               /\ \A t \in resp'.tokens : t.sub = r.id]_vars

\* A registered account has logged in and holds a token for its own id.
C10_Witness ==
    /\ resp.op = "login"
    /\ resp.status = 200
    /\ \E r \in RegisteredAs(resp.request.dto) :
         \E t \in resp.tokens : t.sub = r.id

\* C11: a login whose username no account has and a login whose username
\* exists but whose password does not match get the same response, 401
\* "Invalid credentials" with no account and no token, and neither adds a
\* token to the issued ones.
C11_LoginFailuresAlike ==
    [][(/\ resp'.op = "login"
        /\ resp'.request.dto.username # UNDEF
        /\ resp'.request.dto.password # UNDEF
        /\ \/ FindByUsername(resp'.request.dto.username) = {}
           \/ \E u \in FindByUsername(resp'.request.dto.username) :
                 ~BcryptCompare(resp'.request.dto.password, u.password))
       => /\ [resp' EXCEPT !.proc = 0, !.request = Idle]
               = Reply("login", 401, "Invalid credentials")
          /\ issued' = issued]_vars

\* A login with the username of an existing account and another password
\* has been refused.
C11_Witness ==
    /\ resp.op = "login"
    /\ resp.status = 401
    /\ \E u \in FindByUsername(resp.request.dto.username) :
         ~BcryptCompare(resp.request.dto.password, u.password)

\* A login with a username that no account has has been refused.
C11_UnknownUsernameRefused ==
    /\ resp.op = "login"
    /\ resp.status = 401
    /\ FindByUsername(resp.request.dto.username) = {}

\* The operations the claim names: each opens with getTaskById.
C12_CheckedOps == {"tasks.getTask", "tasks.update", "tasks.delete"}

\* C12: the step of getTask, updateTask and deleteTask that looks the task
\* up answers 404 exactly when no task has the id and 403 exactly when the
\* task exists and its owner is not the caller; no later step of these
\* operations answers 403 or 404.
C12_NotFoundOrForbidden ==
    [][\A p \in Procs :
         (req[p] # Idle /\ req[p].op \in C12_CheckedOps /\ req'[p] # req[p])
         => IF req[p].pc = "handler"
            THEN LET id == IF req'[p] = Idle THEN resp'.request.id
                                             ELSE req'[p].id
                     found == FindTask(id)
                 IN /\ (resp'.status = 404) <=> (found = {})
                    /\ (resp'.status = 403) <=>
                          (\E t \in found : t.userId # req[p].user.id)
            ELSE resp'.status \notin {403, 404}]_vars

\* While tasks of other accounts exist, a request for an id no task has got
\* 404.
C12_Witness ==
    /\ resp.op \in C12_CheckedOps
    /\ resp.status = 404
    /\ FindTask(resp.request.id) = {}
    /\ \E t \in tasks : t.userId # resp.request.user.id

\* An update of a task of another account got 403.
C12_ForbiddenReached ==
    /\ resp.op = "tasks.update"
    /\ resp.status = 403
    /\ \E t \in FindTask(resp.request.id) : t.userId # resp.request.user.id

\* C13: when an Admin's removal of account id is answered 204, every task
\* that id owned is gone and a lookup of its id by any remaining account
\* answers 404; and the owner of every task is an existing account.
C13_TasksFollowOwner ==
    [][/\ (resp'.op = "users.remove" /\ resp'.status = 204) =>
            \A t \in tasks :
               t.userId = resp'.request.id =>
                  /\ \A t2 \in tasks' : t2.id # t.id
                  /\ \A u \in users' :
                        getTaskById(t.id, u.id)'.status = 404
       /\ \A t \in tasks' : \E u \in users' : u.id = t.userId]_vars

\* An account that owned a task has been removed while a task of another
\* account stays.
C13_Witness ==
    /\ resp.op = "users.remove"
    /\ resp.status = 204
    /\ FindById(resp.request.id) = {}
    /\ nextTaskId > MaxTaskId
    /\ Cardinality(tasks) = 1

\* A task creation of an account removed after the guard let it through has
\* failed on the foreign key.
C13_CreateAfterRemovalRefused ==
    /\ resp.op = "tasks.create"
    /\ resp.status = 500
    /\ FindById(resp.request.user.id) = {}

\* The token a request presented, NoToken for a route without guards.
C14_Token(call) == IF "cred" \in DOMAIN call THEN call.cred ELSE NoToken

\* C14: a request that presents a token issued to an account that has since
\* been deleted never gets past the guards, and is answered 401 "User not
\* found" by a step that changes no account, task or file and issues no
\* token.
C14_DeletedAccountTokenRefused ==
    [][\A p \in Procs :
         LET gone(call) == /\ C14_Token(call) \in issued
                           /\ FindById(C14_Token(call).sub) = {}
         IN /\ (req[p] = Idle /\ req'[p] # Idle) => ~gone(req'[p])
            /\ (req[p] = Idle /\ resp'.proc = p /\ gone(resp'.request)) =>
                  /\ resp'.status = 401
                  /\ resp'.message = "User not found"
                  /\ resp'.accounts = {} /\ resp'.tasks = {}
                  /\ UNCHANGED <<users, tasks, files, issued>>]_vars

\* A request with the token of a deleted account has been refused.
C14_Witness ==
    /\ resp.status = 401
    /\ resp.request # Idle
    /\ C14_Token(resp.request) \in issued
    /\ FindById(C14_Token(resp.request).sub) = {}

\* An addAttachment of the owner, on a task that had an attachment, has just
\* been answered 200.
C15_Replaced ==
    /\ resp'.op = "tasks.addAttachment"
    /\ resp'.status = 200
    /\ resp'.request.old # NULL

\* The task's attachment is the new file's path and the new file is stored.
C15_NewAttachmentStored ==
    /\ \E t \in tasks' : /\ t.id = resp'.request.id
                         /\ t.userId = resp'.request.user.id
                         /\ t.attachment = resp'.request.file
    /\ resp'.request.file # resp'.request.old
    /\ resp'.request.file \in files'

\* C15 as stated: after addAttachment by the owner on a task that has an
\* attachment, the task's attachment is the new file's path, the new file
\* is in storage and the file the task named before is not.
C15_AttachmentReplaced ==
    [][C15_Replaced =>
         /\ C15_NewAttachmentStored
         /\ resp'.request.old \notin files']_vars

\* C15, with the deletion best-effort: after addAttachment by the owner on a
\* task that has an attachment, the task's attachment is the new file's
\* path and the new file is in storage; the file the task named before is
\* not in storage unless unlinkSync threw on it, and then it is still there.
C15_AttachmentReplacedBestEffort ==
    [][C15_Replaced =>
         /\ C15_NewAttachmentStored
         /\ ~resp'.request.caught => resp'.request.old \notin files'
         /\ resp'.request.caught => resp'.request.old \in files']_vars

\* A second attachment has replaced the first and the first file is gone.
C15_Witness ==
    /\ resp.op = "tasks.addAttachment"
    /\ resp.status = 200
    /\ resp.request.old # NULL
    /\ ~resp.request.caught
    /\ resp.request.old \notin files
    /\ resp.request.file \in files

\* The request that deletes the row in this step had its unlinkSync throw.
C16_DeletionFailed ==
    \E p \in Procs : /\ req[p] # Idle
                     /\ req'[p] = Idle
                     /\ req[p].op = "tasks.delete"
                     /\ req[p].pc = "delete"
                     /\ req[p].caught

\* The rows with a stored file that this step deletes.
C16_DeletedTasks ==
    {t \in tasks : /\ t.attachment \in files
                   /\ \A t2 \in tasks' : t2.id # t.id}

C16_DeletedAccounts ==
    {u \in users : /\ u.profilePicture \in files
                   /\ \A u2 \in users' : u2.id # u.id}

\* C16: a step that deletes a task whose attachment file is stored, by
\* deleteTask or by the cascade from its owner's removal, or an account
\* whose profile picture is stored, leaves that file out of storage, unless
\* the deletion of the file itself failed.
C16_FilesFollowRecords ==
    [][~C16_DeletionFailed =>
         /\ \A t \in C16_DeletedTasks : t.attachment \notin files'
         /\ \A u \in C16_DeletedAccounts :
               u.profilePicture \notin files']_vars

\* The part of C16 about deleteTask alone.
C16_DeleteTaskRemovesFile ==
    [][\A p \in Procs :
         (/\ req[p] # Idle
          /\ req[p].op = "tasks.delete"
          /\ resp'.proc = p
          /\ resp'.status = 204
          /\ ~req[p].caught)
         => (req[p].old # NULL => req[p].old \notin files')]_vars

\* deleteTask has deleted a task that had an attachment file.
C16_DeleteTaskReached ==
    /\ resp.op = "tasks.delete"
    /\ resp.status = 204
    /\ resp.request.old # NULL
    /\ ~resp.request.caught

\* The operations that remove an old file before their database write.
C17_FileOps ==
    {"tasks.addAttachment", "tasks.removeAttachment", "tasks.delete",
     "profile.picture"}

\* The database write of the request call has been done.
C17_Written(call) ==
    CASE call.op = "tasks.addAttachment" ->
           \E t \in tasks' : t.id = call.id /\ t.attachment = call.file
      [] call.op = "tasks.removeAttachment" ->
           \E t \in tasks' : t.id = call.id /\ t.attachment = NULL
      [] call.op = "tasks.delete" ->
           (FindTask(call.id) # {} /\ \A t \in tasks' : t.id # call.id)
      [] call.op = "profile.picture" ->
           \E u \in users' : /\ u.id = call.user.id
                              /\ u.profilePicture = call.file

\* C17: when unlinkSync throws on the old file in addAttachment,
\* removeAttachment, deleteTask or updateProfilePicture, the request is not
\* ended by it: it goes on to its database write, does it, and is answered
\* with success (204 for deleteTask, 200 for the others).
C17_UnlinkFailureSwallowed ==
    [][\A p \in Procs :
         /\ (/\ req[p] # Idle
             /\ req[p].op \in C17_FileOps
             /\ req[p].pc = "unlink"
             /\ req'[p] # req[p])
            => /\ req'[p] # Idle
               /\ req'[p].pc \in {"write", "delete"}
               /\ req'[p].caught = (req[p].old \in files')
         /\ (/\ req[p] # Idle
             /\ req[p].op \in C17_FileOps
             /\ req[p].pc \in {"write", "delete"}
             /\ req[p].caught
             /\ req'[p] # req[p])
            => /\ resp'.proc = p
               /\ resp'.status
                    = (IF req[p].op = "tasks.delete" THEN 204 ELSE 200)
               /\ C17_Written(req[p])]_vars

\* A new profile picture has been stored although the old one could not be
\* removed.
C17_Witness ==
    /\ resp.op = "profile.picture"
    /\ resp.status = 200
    /\ resp.request.caught
    /\ resp.request.old \in files
    /\ \E u \in resp.accounts : u.profilePicture = resp.request.file

\* A task has been deleted although its attachment could not be removed.
C17_DeleteReached ==
    /\ resp.op = "tasks.delete"
    /\ resp.status = 204
    /\ resp.request.caught

\* An answer of getProfilePicture itself (the guard let the request in).
C18_Answered ==
    /\ resp'.op = "profile.getPicture"
    /\ resp'.request.pc # "guard"

\* C18: getProfilePicture sends a picture path only when the id asked for
\* is the requester's own; for every other id, of an account with or
\* without a picture or of no account at all, it answers with the refusal
\* of the requester (the exception the code throws for it, or 403) and
\* never with 404.
C18_MismatchNeverNotFound ==
    [][C18_Answered =>
         /\ resp'.path # NULL => resp'.request.id = resp'.request.user.id
         /\ resp'.request.id # resp'.request.user.id =>
               /\ resp'.status \in {401, 403}
               /\ resp'.path = NULL]_vars

\* The part of C18 that the code keeps: a path is sent only to its owner,
\* and an id of another existing account is refused, not reported missing.
C18_OnlyOwnerGetsPath ==
    [][C18_Answered =>
         /\ resp'.path # NULL =>
               /\ resp'.request.id = resp'.request.user.id
               /\ \E u \in users : /\ u.id = resp'.request.id
                                    /\ u.profilePicture = resp'.path
         /\ (/\ resp'.request.id # resp'.request.user.id
             /\ FindById(resp'.request.id) # {})
            => resp'.status \notin {200, 404}]_vars

\* An account has fetched its own picture.
C18_OwnPictureReached ==
    /\ resp.op = "profile.getPicture"
    /\ resp.status = 200
    /\ resp.path \in files

\* The answered request came with the token of an existing account.
C19_ValidToken ==
    /\ resp'.request # Idle
    /\ "cred" \in DOMAIN resp'.request
    /\ FindById(resp'.request.cred.sub) # {}

\* The caller's role is not one the route requires.
C19_LacksRole ==
    /\ resp'.op \in UsersOps
    /\ \A u \in FindById(resp'.request.cred.sub) : u.role \notin UsersRoles

\* The request names a task, or the picture of an account, of someone else
\* (an upload without a file is refused for that, before the owner is looked
\* at).
C19_NotOwner ==
    /\ resp'.request.pc # "guard"
    /\ "id" \in DOMAIN resp'.request
    /\ \/ /\ resp'.op \in OwnedTaskOps
          /\ resp'.op = "tasks.addAttachment" =>
                resp'.request.upload # "none"
          /\ \E t \in FindTask(resp'.request.id) :
                t.userId # resp'.request.user.id
       \/ /\ resp'.op = "profile.getPicture"
          /\ FindById(resp'.request.id) # {}
          /\ resp'.request.id # resp'.request.user.id

\* C19: a request with a valid token whose caller lacks the role the route
\* requires, or asks for a task, an attachment or a profile picture of
\* another account, is answered 403.
C19_RefusalIsForbidden ==
    [][(C19_ValidToken /\ (C19_LacksRole \/ C19_NotOwner))
          => resp'.status = 403]_vars

C20_OwnValueAccepted ==
    /\ resp.op = "users.update"
    /\ resp.status = 200
    /\ resp.request.dto.email # UNDEF
    /\ \E u \in resp.request.seen : /\ u.id = resp.request.id
                                    /\ u.email = resp.request.dto.email

\* C21: the first step of updateRole answers 404 when no account has the
\* id and 400 when an account has it and the role is neither Admin nor User,
\* and goes on to the write otherwise; no such step and no refusal changes
\* an account, and a write answered 200 changes the role of account id and
\* nothing else.
C21_RoleValidatedBeforeWrite ==
    [][\A p \in Procs :
         (/\ req[p] # Idle
          /\ req[p].op = "users.updateRole"
          /\ req'[p] # req[p])
         => /\ req[p].pc = "handler" =>
                  LET call == IF req'[p] = Idle THEN resp'.request
                                                ELSE req'[p]
                  IN /\ users' = users
                     /\ (FindById(call.id) = {}) <=>
                           (resp'.proc = p /\ resp'.status = 404)
                     /\ (FindById(call.id) # {} /\ call.role \notin UserRole)
                           <=> (resp'.proc = p /\ resp'.status = 400)
                     /\ (resp'.proc # p) <=> (req'[p] # Idle)
            /\ req[p].pc = "write" =>
                  /\ req[p].role \in UserRole
                  /\ resp'.status # 200 => users' = users
                  /\ resp'.status = 200 =>
                        \E row \in users :
                           /\ row.id = req[p].id
                           /\ users' = (users \ {row}) \cup
                                 {[row EXCEPT !.role = req[p].role]}]_vars

\* An updateRole with a role that does not exist has been refused.
C21_Witness ==
    /\ resp.op = "users.updateRole"
    /\ resp.status = 400
    /\ FindById(resp.request.id) # {}
    /\ resp.request.role \notin UserRole

\* An updateRole has changed a role.
C21_RoleChanged ==
    /\ resp.op = "users.updateRole"
    /\ resp.status = 200
    /\ \E u \in users : u.id = resp.request.id /\ u.role = "User"
    /\ resp.request.id = 1

\* The answer of register or of UsersService.create to a body.
C22_Creation ==
    /\ resp'.op \in {"register", "users.create"}
    /\ resp'.request.pc = "create"

\* C22: a register or an admin create whose body has neither an email nor a
\* phone number (each omitted or null) is answered 400 and inserts nothing,
\* and every account a step inserts has an email or a phone number.
C22_ContactRequired ==
    [][/\ (/\ C22_Creation
           /\ Missing(resp'.request.dto.email)
           /\ Missing(resp'.request.dto.phoneNumber))
          => /\ resp'.status = 400
             /\ users' = users
       /\ \A u \in users' :
            (\A v \in users : v.id # u.id) =>
               (u.email # NULL \/ u.phoneNumber # NULL)]_vars

\* An admin create without email and phone number has been refused.
C22_Witness ==
    /\ resp.op = "users.create"
    /\ resp.status = 400
    /\ resp.request.pc = "create"
    /\ Missing(resp.request.dto.email)
    /\ Missing(resp.request.dto.phoneNumber)
    /\ resp.message = "Either email or phone number must be provided"

\* A register with a null email and a null phone number has been refused.
C22_NullContactRefused ==
    /\ resp.op = "register"
    /\ resp.status = 400
    /\ resp.request.dto.email = NULL
    /\ resp.request.dto.phoneNumber = NULL

\* min(a, b) and max(a, b)
C23_Min(a, b) == IF a < b THEN a ELSE b

C23_Max(a, b) == IF a > b THEN a ELSE b

\* The numbers of the claim for the answered list request: N tasks of the
\* caller match the search term, and the page and the meta data follow from
\* N, the page and the limit.
C23_PageOf(N, page, limit) ==
    /\ Cardinality(resp'.tasks)
          = C23_Min(limit, C23_Max(0, N - (page - 1) * limit))
    /\ resp'.meta.total = N
    /\ resp'.meta.totalPages * limit >= N
    /\ (resp'.meta.totalPages - 1) * limit < N
    /\ resp'.meta.totalPages >= 0
    /\ resp'.meta.hasNext <=> (page < resp'.meta.totalPages)
    /\ resp'.meta.hasPrevious <=> (page > 1)

\* The caller's tasks that match the term of the answered list request.
C23_Matching ==
    {t \in tasks :
        /\ t.userId = resp'.request.user.id
        /\ resp'.request.query.search # UNDEF =>
              \/ Contains(t.name, resp'.request.query.search)
              \/ Contains(t.description, resp'.request.query.search)}

\* A list request that got past the guard has been answered.
C23_Listed ==
    /\ resp'.op = "tasks.getTasks"
    /\ resp'.request.pc # "guard"

\* C23 as stated: every list request with a page of at least 1 and a limit
\* of at least 1 is answered with min(L, max(0, N - (p-1)*L)) tasks, total
\* N, totalPages ceil(N / L), hasNext iff p < totalPages and hasPrevious
\* iff p > 1.
C23_PageNumbers ==
    [][C23_Listed =>
         /\ resp'.status = 200
         /\ C23_PageOf(Cardinality(C23_Matching), resp'.request.query.page,
                       resp'.request.query.limit)]_vars

\* C23 for the limits the request validation lets through: every list
\* request with a page of at least 1 and a limit from 1 to 100 is answered
\* with min(L, max(0, N - (p-1)*L)) tasks, total N, totalPages ceil(N / L),
\* hasNext iff p < totalPages and hasPrevious iff p > 1; a limit above 100
\* is answered 400 with no tasks.
C23_PageNumbersUpToMaxLimit ==
    [][C23_Listed =>
         IF resp'.request.query.limit <= MaxLimit
         THEN /\ resp'.status = 200
              /\ C23_PageOf(Cardinality(C23_Matching),
                            resp'.request.query.page,
                            resp'.request.query.limit)
         ELSE /\ resp'.status = 400
              /\ resp'.tasks = {}]_vars

\* A middle page has been listed: tasks before it and after it.
C23_Witness ==
    /\ resp.op = "tasks.getTasks"
    /\ resp.status = 200
    /\ resp.request.query.page = 2
    /\ resp.meta.total = MaxListed
    /\ resp.meta.hasNext
    /\ resp.meta.hasPrevious
    /\ Cardinality(resp.tasks) = 1

\* A page past the last one has been listed, empty.
C23_PastTheEnd ==
    /\ resp.op = "tasks.getTasks"
    /\ resp.status = 200
    /\ resp.meta.total > 0
    /\ resp.request.query.page > resp.meta.totalPages
    /\ resp.tasks = {}

\* The texts in use that hold the letters d, o, c in a row in either case.
C24_MentionsDoc == {"Doc", "a doc", "doc", "DOC"}

\* The task matches the term of the answered list request: any task when
\* no term is given, else name or description holds the term in either case.
C24_Matches(t, search) ==
    CASE search = UNDEF -> TRUE
      [] search \in {"doc", "DOC"} ->
            t.name \in C24_MentionsDoc \/ t.description \in C24_MentionsDoc
      [] OTHER -> t.name = search \/ t.description = search

\* The tasks the answered list request is about: those of the caller that
\* match the term.
C24_OwnMatching ==
    {t \in tasks : /\ t.userId = resp'.request.user.id
                   /\ C24_Matches(t, resp'.request.query.search)}

\* C24: an answered task list holds only tasks of the caller that match
\* the search term in name or description without regard to case, its
\* total counts exactly the caller's matching tasks, and a first page that
\* is large enough holds all of them; no task of another account is
\* listed or counted.
C24_ListScopedToOwner ==
    [][(/\ resp'.op = "tasks.getTasks"
        /\ resp'.request.pc # "guard"
        /\ resp'.status = 200) =>
         /\ resp'.tasks \subseteq C24_OwnMatching
         /\ resp'.meta.total = Cardinality(C24_OwnMatching)
         /\ (resp'.request.query.page = 1
               /\ resp'.request.query.limit >= resp'.meta.total) =>
                resp'.tasks = C24_OwnMatching]_vars

\* A search in capitals has listed the caller's tasks named "Doc" or
\* described "a doc" while another account holds a matching task too.
C24_Witness ==
    /\ resp.op = "tasks.getTasks"
    /\ resp.status = 200
    /\ resp.request.query.search = "DOC"
    /\ \E t \in resp.tasks : t.name = "Doc"
    /\ \E t \in resp.tasks : t.name = "tax" /\ t.description = "a doc"
    /\ \E t \in tasks : /\ t.userId # resp.request.user.id
                        /\ t.name = "Doc"
                        /\ t \notin resp.tasks

\* A search for a term no task holds has listed nothing.
C24_NoMatchListsNothing ==
    /\ resp.op = "tasks.getTasks"
    /\ resp.status = 200
    /\ resp.request.query.search = "zz"
    /\ resp.meta.total = 0
    /\ resp.tasks = {}
    /\ \E t \in tasks : t.userId = resp.request.user.id

\* The operations that need the task to have an attachment.
C25_AttachmentOps == {"tasks.getAttachment", "tasks.removeAttachment"}

\* C25: the step of getAttachment and removeAttachment that looks up a task
\* of the caller without an attachment answers 404 and changes neither the
\* tasks nor the files; and when removeAttachment is answered 200 the task
\* is left without an attachment, so that the next request for it meets the
\* first case.
C25_NotFoundWithoutAttachment ==
    [][/\ \A p \in Procs :
            (/\ req[p] # Idle
             /\ req[p].op \in C25_AttachmentOps
             /\ req[p].pc = "handler"
             /\ req'[p] # req[p]) =>
               LET id == IF req'[p] = Idle THEN resp'.request.id
                                           ELSE req'[p].id
               IN (\E t \in FindTask(id) : /\ t.userId = req[p].user.id
                                           /\ t.attachment = NULL) =>
                     /\ req'[p] = Idle
                     /\ resp'.status = 404
                     /\ tasks' = tasks
                     /\ files' = files
       /\ (resp'.op = "tasks.removeAttachment" /\ resp'.status = 200) =>
             /\ FindTask(resp'.request.id) # {}
             /\ \A t \in tasks' :
                   t.id = resp'.request.id => t.attachment = NULL]_vars

\* The owner asked to remove the attachment of a task that had lost its
\* attachment to an earlier removal, and got 404.
C25_Witness ==
    /\ resp.op = "tasks.removeAttachment"
    /\ resp.status = 404
    /\ nextFileId > 1
    /\ \E t \in FindTask(resp.request.id) :
          t.userId = resp.request.user.id /\ t.attachment = NULL

\* The owner asked for the attachment of a task without one, and got 404.
C25_GetWithoutAttachment ==
    /\ resp.op = "tasks.getAttachment"
    /\ resp.status = 404
    /\ \E t \in FindTask(resp.request.id) :
          t.userId = resp.request.user.id /\ t.attachment = NULL

\* An attachment has been removed.
C25_Removed ==
    /\ resp.op = "tasks.removeAttachment"
    /\ resp.status = 200
    /\ \E t \in FindTask(resp.request.id) : t.attachment = NULL

\* The request process p has just brought to the guards.
C26_Arrived(p) == IF req'[p] = Idle THEN resp'.request ELSE req'[p]

\* C26: a request that presents a token signed for an existing account is
\* authorized by the role the account has now, whatever role the token was
\* signed with: on a /users route it passes the guards exactly when the
\* stored role is Admin and is answered 403 otherwise, and on every route
\* the handler is given the stored role.
C26_StoredRoleDecides ==
    [][\A p \in Procs :
         (/\ req[p] = Idle
          /\ req'[p] # Idle \/ resp'.proc = p
          /\ "cred" \in DOMAIN C26_Arrived(p)
          /\ C26_Arrived(p).cred \in issued) =>
            \A u \in FindById(C26_Arrived(p).cred.sub) :
               /\ C26_Arrived(p).op \in UsersOps =>
                     IF u.role = "Admin"
                     THEN req'[p] # Idle
                     ELSE req'[p] = Idle /\ resp'.status = 403
               /\ req'[p] # Idle => req'[p].user.role = u.role]_vars

\* An account that logged in as Admin and has since been made a User asked
\* for a /users route with the token of that login and got 403.
C26_Witness ==
    /\ resp.op \in UsersOps
    /\ resp.status = 403
    /\ resp.request.cred \in issued
    /\ resp.request.cred.role = "Admin"
    /\ \E u \in FindById(resp.request.cred.sub) : u.role = "User"

\* An account that got its token as a User and has since been made an Admin
\* had a /users request served with that token.
C26_PromotedAllowed ==
    /\ resp.op \in UsersOps
    /\ resp.request.pc # "guard"
    /\ resp.status \in {200, 201, 204}
    /\ resp.request.cred \in issued
    /\ resp.request.cred.role = "User"
    /\ resp.request.user.role = "Admin"

\* The operations that write a task after the ownership check.
C27_WritingOps ==
    {"tasks.update", "tasks.delete", "tasks.addAttachment",
     "tasks.removeAttachment"}

\* C27: when the task has gone by the time a request that passed the
\* ownership check comes to its write, the request is answered 404 and the
\* tasks stay as they are.
C27_WriteAfterDeleteNotFound ==
    [][\A p \in Procs :
         (/\ req[p] # Idle
          /\ req[p].op \in C27_WritingOps
          /\ req[p].pc \in {"write", "delete"}
          /\ req'[p] = Idle
          /\ FindTask(req[p].id) = {}) =>
            /\ resp'.status = 404
            /\ tasks' = tasks]_vars

\* The half of C27 the code keeps: a write that comes after the task has
\* gone creates and restores no task.
C27_NothingRestored ==
    [][\A p \in Procs :
         (/\ req[p] # Idle
          /\ req[p].op \in C27_WritingOps
          /\ req[p].pc \in {"write", "delete"}
          /\ req'[p] = Idle
          /\ FindTask(req[p].id) = {}) => tasks' = tasks]_vars

\* A write found its task gone.
C27_WriteFoundTaskGone ==
    /\ resp.op \in C27_WritingOps
    /\ resp.request.pc \in {"write", "delete"}
    /\ resp.status = 500
    /\ FindTask(resp.request.id) = {}

\* C28: the path TasksService.getAttachment returns to the controller names
\* a file that is in storage at that moment.
C28_ReturnedPathExists ==
    [][\A p \in Procs :
         (/\ req[p] # Idle
          /\ req[p].op = "tasks.getAttachment"
          /\ req[p].pc = "handler"
          /\ req'[p] # Idle
          /\ req'[p].pc = "send") => req'[p].path \in files']_vars

\* The download of a path whose file had been removed was answered 404 by
\* sendFile.
C28_SentMissingFile ==
    /\ resp.op = "tasks.getAttachment"
    /\ resp.request.pc = "send"
    /\ resp.status = 404
    /\ resp.request.path \notin files

\* C29: an addAttachment request answered 404 (no such task) or 403 (the
\* task of another account) leaves the stored files as they were.
C29_RefusedUploadNotKept ==
    [][(/\ resp'.op = "tasks.addAttachment"
        /\ resp'.status \in {403, 404}) => files' = files]_vars

\* An upload to the task of another account was answered 403 and its file
\* is in storage, attached to no task.
C29_ForeignUploadKept ==
    /\ resp.op = "tasks.addAttachment"
    /\ resp.status = 403
    /\ resp.request.file \in files
    /\ \A t \in tasks : t.attachment # resp.request.file

\* The unique fields for which the body supplies a value that some account
\* holds; an omitted or null email or phone number is no supplied value.
C30_Held(dto) ==
    {f \in UniqueFields :
        ~Missing(dto[f]) /\ \E u \in users : u[f] = dto[f]}

\* A registration or an administrator's creation has been answered by the
\* service.
C30_Answered ==
    /\ resp'.op \in {"register", "users.create"}
    /\ resp'.request.pc # "guard"

\* C30: register and create answer "already in use" only when an account
\* holds a value the body supplies, and a body with a username, a password
\* and at least one contact whose supplied values no account holds is
\* answered 201; an omitted or null email or phone number conflicts with
\* no account.
C30_InUseOnlyWhenHeld ==
    [][C30_Answered =>
         LET dto == resp'.request.dto IN
         /\ resp'.message \in {InUseMessage(f) : f \in UniqueFields} =>
               C30_Held(dto) # {}
         /\ (/\ ~Missing(dto.username)
             /\ ~Missing(dto.password)
             /\ ~Missing(dto.email) \/ ~Missing(dto.phoneNumber)
             /\ C30_Held(dto) = {}) => resp'.status = 201]_vars

\* A body with a null phone number was refused for its phone number while
\* no account held any value it supplied.
C30_NullTreatedAsHeld ==
    /\ resp.op \in {"register", "users.create"}
    /\ resp.request.pc # "guard"
    /\ resp.message = "Phone number already in use"
    /\ resp.request.dto.phoneNumber = NULL
    /\ C30_Held(resp.request.dto) = {}

====
